---- MODULE Spec2Model ----
(***************************************************************************)
(* Verification model of TERNUAV_DataBackupAutomation_V3_251111.py:        *)
(* the multi-spectral (MicaSense) transfer with its series packer, and the *)
(* LiDAR / RGB folder transfers with their required-extension classifier.  *)
(*                                                                         *)
(* File and folder names are sequences of character codes, so that split,  *)
(* rsplit, upper, isdigit, "in" and the lexicographic sort are computed on *)
(* the characters as the Python code computes them.                        *)
(***************************************************************************)
EXTENDS Integers, Sequences, FiniteSets, TLC

(***************************************************************************)
(* Characters and Python string primitives.  A string is a sequence of     *)
(* character codes (ASCII), so ord(c) is c itself.                         *)
(***************************************************************************)

DOT == 46          \* '.'
UNDERSCORE == 95   \* '_'
DASH == 45         \* '-'
ZERO == 48         \* '0'

IsDigitChar(c) == c >= ZERO /\ c <= ZERO + 9

\* str.isdigit(): non-empty and every character a digit.
IsDigit(s) == Len(s) > 0 /\ \A n \in 1..Len(s) : IsDigitChar(s[n])

\* The upper-case form of one character: 'a'..'z' (97..122) to 'A'..'Z'.
UpperChar(c) == IF c >= 97 /\ c <= 122 THEN c - 32 ELSE c

\* str.upper()
Upper(s) == [n \in 1..Len(s) |-> UpperChar(s[n])]

\* The index of the last occurrence of c in s at or before n, 0 when none.
RECURSIVE LastIndexFrom(_, _, _)
LastIndexFrom(s, c, n) ==
    IF n = 0 THEN 0
    ELSE IF s[n] = c THEN n
    ELSE LastIndexFrom(s, c, n - 1)

LastIndexOf(s, c) == LastIndexFrom(s, c, Len(s))

\* c in s
Contains(s, c) == LastIndexOf(s, c) > 0

\* s.rsplit(c, 1)[0]: everything before the last c, or s when c is absent.
RsplitHead(s, c) ==
    LET n == LastIndexOf(s, c) IN IF n > 0 THEN SubSeq(s, 1, n - 1) ELSE s

\* s.rsplit(c, 1)[1] and s.split(c)[-1] for an s that contains c:
\* everything after the last c.
RsplitTail(s, c) == SubSeq(s, LastIndexOf(s, c) + 1, Len(s))

\* The set of the elements of a sequence.
Range(s) == { s[n] : n \in 1..Len(s) }

\* s.endswith(t)
EndsWith(s, t) ==
    Len(s) >= Len(t) /\ SubSeq(s, Len(s) - Len(t) + 1, Len(s)) = t

\* a < b for Python strings from position n on: lexicographic by character
\* code, a proper prefix before the longer string.
RECURSIVE LessFrom(_, _, _)
LessFrom(a, b, n) ==
    IF n > Len(b) THEN FALSE
    ELSE IF n > Len(a) THEN TRUE
    ELSE IF a[n] = b[n] THEN LessFrom(a, b, n + 1)
    ELSE a[n] < b[n]

StrLess(a, b) == LessFrom(a, b, 1)

\* int(s) for a string of digits.
RECURSIVE IntOf(_)
IntOf(s) ==
    IF Len(s) = 0 THEN 0
    ELSE 10 * IntOf(SubSeq(s, 1, Len(s) - 1)) + (s[Len(s)] - ZERO)

\* str(n) for n >= 0.
RECURSIVE StrOf(_)
StrOf(n) ==
    IF n < 10 THEN << ZERO + n >>
    ELSE Append(StrOf(n \div 10), ZERO + (n % 10))

\* s.split(c) read from position n on, cur being the part collected so far.
RECURSIVE SplitFrom(_, _, _, _)
SplitFrom(s, c, n, cur) ==
    IF n > Len(s) THEN << cur >>
    ELSE IF s[n] = c THEN << cur >> \o SplitFrom(s, c, n + 1, << >>)
    ELSE SplitFrom(s, c, n + 1, Append(cur, s[n]))

\* s.split(c): the parts of s between the occurrences of c.
Split(s, c) == SplitFrom(s, c, 1, << >>)

\* t in s, for strings: t occurs in s as a substring.
HasSubstring(s, t) ==
    \E n \in 1..(Len(s) - Len(t) + 1) : SubSeq(s, n, n + Len(t) - 1) = t

\* s.zfill(w): left-padded with '0' to width w, never truncated.
RECURSIVE Zfill(_, _)
Zfill(s, w) == IF Len(s) >= w THEN s ELSE Zfill(<< ZERO >> \o s, w)

(***************************************************************************)
(* Bounds of the model                                                     *)
(***************************************************************************)

\* Times a pipeline is run against the same card and parent folder.
MaxRuns == 2

\* Calendar days the runs may fall on.
MaxDays == 2

\* Source files that are unreadable.
MaxUnreadable == 1

\* Files in the listing of the first SET of a small RED card.
MaxListing == 2

\* Complete captures (eleven bands each) at the start of a long flight.
LongFlightCaptures == 199

\* Capture runs that follow the complete captures of a long flight.
MaxTailRuns == 2

\* Folders on an L2 or P1 card.
MaxFolders == 2

\* Required file types that a folder of such a card may lack.
MaxMissing == 1

\* The SET folders on a card of the dialogue.
MaxSets == 3

(***************************************************************************)
(* Program constants                                                       *)
(***************************************************************************)

MAX_FILES_PER_FOLDER == 2200

\* The look-ahead of the series detection: range(i, min(i + 11, len)).
SERIES_LOOKAHEAD == 11

\* Python's None for series_num.
None == -1

\* The plot ids of SITE_DATABASE that the operator enters in this model, in
\* the order sorted() gives them.
PlotOrder == << "NTAFIN0002", "SAAFLB0030" >>

SITE_DATABASE == { PlotOrder[n] : n \in 1..Len(PlotOrder) }

PlotRank(p) == CHOOSE n \in 1..Len(PlotOrder) : PlotOrder[n] = p

Cameras == << "RED", "BLUE" >>

\* The required file types of an L2 (LiDAR) folder.
LIDAR_REQUIRED_FILES ==
    << << 77, 82, 75 >>,        \* MRK
       << 82, 80, 84 >>,        \* RPT
       << 67, 76, 67 >>,        \* CLC
       << 67, 76, 73 >>,        \* CLI
       << 68, 66, 71 >>,        \* DBG
       << 73, 77, 85 >>,        \* IMU
       << 76, 68, 82 >>,        \* LDR
       << 76, 68, 82, 84 >>,    \* LDRT
       << 82, 80, 79, 83 >>,    \* RPOS
       << 82, 84, 66 >>,        \* RTB
       << 82, 84, 75 >>,        \* RTK
       << 82, 84, 76 >>,        \* RTL
       << 82, 84, 83 >>,        \* RTS
       << 83, 73, 71 >>,        \* SIG
       << 74, 80, 71 >> >>      \* JPG

\* The required file types of a P1 (RGB) folder.
P1_REQUIRED_FILES ==
    << << 78, 65, 86 >>,        \* NAV
       << 79, 66, 83 >>,        \* OBS
       << 66, 73, 78 >>,        \* BIN
       << 77, 82, 75 >>,        \* MRK
       << 74, 80, 71 >> >>      \* JPG

\* "UNKNOWN", the plot id of a folder whose name yields none.
UNKNOWN == << 85, 78, 75, 78, 79, 87, 78 >>

\* "-P1", which the name of a P1 folder contains.
P1_MARK == << DASH, 80, 49 >>

(***************************************************************************)
(* MicaSense file names.  A name is kept in the state as the number        *)
(* NameCode(k, s, e) and FileName gives its characters:                    *)
(*    s in 1..12   IMG_kkkk_<s>.<ext>     a numbered member of capture k   *)
(*    s = 13, 15   IMG_kkkk_a.<ext>, IMG_kkkk_b.<ext>   non-numeric suffix *)
(*    s = 0        IMG_kkkk.<ext>         no series suffix                 *)
(*    s = 14       IMGkkkk.<ext>          no underscore at all             *)
(*    e = 0, 1, 2  tif, TIFF, dat                                          *)
(***************************************************************************)

NameCode(k, s, e) == (k * 16 + s) * 3 + e

CaptureOf(n) == n \div 48

SuffixOf(n) == (n \div 3) % 16

ExtOf(n) == n % 3

D4(k) ==
    << ZERO + ((k \div 1000) % 10), ZERO + ((k \div 100) % 10),
       ZERO + ((k \div 10) % 10), ZERO + (k % 10) >>

ExtChars(e) ==
    CASE e = 0 -> << DOT, 116, 105, 102 >>          \* .tif
      [] e = 1 -> << DOT, 84, 73, 70, 70 >>         \* .TIFF
      [] OTHER -> << DOT, 100, 97, 116 >>           \* .dat

FileName(n) ==
    LET k == CaptureOf(n)
        s == SuffixOf(n)
        stem == IF s = 14 THEN << 73, 77, 71 >> \o D4(k)               \* IMG
                ELSE << 73, 77, 71, UNDERSCORE >> \o D4(k)             \* IMG_
        suffix == CASE s \in 1..12 -> << UNDERSCORE >> \o StrOf(s)
                    [] s = 13 -> << UNDERSCORE, 97 >>                  \* _a
                    [] s = 15 -> << UNDERSCORE, 98 >>                  \* _b
                    [] OTHER -> << >>
    IN  stem \o suffix \o ExtChars(ExtOf(n))

\* f.upper().endswith(('.TIF', '.TIFF'))
IsTif(name) ==
    \/ EndsWith(Upper(name), << DOT, 84, 73, 70 >>)
    \/ EndsWith(Upper(name), << DOT, 84, 73, 70, 70 >>)

(***************************************************************************)
(* Series detection of the packer                                          *)
(***************************************************************************)

\* name_without_ext = filename.rsplit('.', 1)[0]
NameWithoutExt(filename) == RsplitHead(filename, DOT)

\* base_name of the entry under the cursor.
BaseNameOf(filename) ==
    LET name_without_ext == NameWithoutExt(filename)
    IN  IF Contains(name_without_ext, UNDERSCORE)
        THEN RsplitHead(name_without_ext, UNDERSCORE)
        ELSE name_without_ext

\* series_num of the entry under the cursor: int(parts[1]) when parts[1] is
\* all digits, else None.
SeriesNumOf(filename) ==
    LET name_without_ext == NameWithoutExt(filename)
    IN  IF Contains(name_without_ext, UNDERSCORE)
        THEN LET part1 == RsplitTail(name_without_ext, UNDERSCORE)
             IN  IF IsDigit(part1) THEN IntOf(part1) ELSE None
        ELSE None

\* The look-ahead test on entry check_file against base_name.
SeriesMatch(check_file, base_name) ==
    LET check_name == RsplitHead(check_file, DOT)
    IN  Contains(check_name, UNDERSCORE)
        /\ RsplitHead(check_name, UNDERSCORE) = base_name

Min(a, b) == IF a < b THEN a ELSE b

\* The look-ahead loop from entry j (0-based) to hi: counts matching entries
\* and breaks at the first one that does not match.
RECURSIVE LookAhead(_, _, _, _)
LookAhead(files, j, hi, base_name) ==
    IF j < hi /\ SeriesMatch(FileName(files[j + 1].name), base_name)
    THEN 1 + LookAhead(files, j + 1, hi, base_name)
    ELSE 0

\* A series detection that looks one entry less far ahead.
SeriesCountShort(files, i0) ==
    LET filename == FileName(files[i0 + 1].name)
    IN  IF SeriesNumOf(filename) # None
        THEN LookAhead(files, i0, Min(i0 + SERIES_LOOKAHEAD - 1, Len(files)),
                       BaseNameOf(filename))
        ELSE 1

\* series_count for the cursor i0 (0-based) over the list files.
SeriesCount(files, i0) ==
    LET filename == FileName(files[i0 + 1].name)
    IN  IF SeriesNumOf(filename) # None
        THEN LookAhead(files, i0, Min(i0 + SERIES_LOOKAHEAD, Len(files)),
                       BaseNameOf(filename))
        ELSE 1

(***************************************************************************)
(* State                                                                   *)
(***************************************************************************)

VARIABLES
    pipeline,              \* "lidar", "rgb" or "multispec": the step being run
    pc,                    \* position of the running pipeline
    run,                   \* how many times the pipeline has been started
    today,                 \* the calendar day, today_str of the running pipeline
    unreadable,            \* source files whose copy raises an I/O error
    dest,                  \* the parent folder: directory <<plot, day, bin or
                           \*   folder>> -> the names of the files it holds
    previous,              \* what the run before left behind, once a rerun began
    sd,                    \* SD cards: camera -> SET number -> listing of names
    set_assignments,       \* SET number -> plot id
    files_by_plot,         \* plot id -> list of file records
    plot_id,               \* the plot the packer writes to
    i,                     \* cursor of the packer
    current_folder_num,
    current_folder_count,
    summary,               \* closed bins of the packer: Folder, Files
    total_copied,
    total_skipped,
    all_summaries,         \* plot id -> folders, total_copied, total_skipped
    grand_total_copied,
    grand_total_skipped,
    copy_errors,           \* "Failed to copy file" errors logged in this run
    steps,                 \* per packer step: cursor and count before it,
                           \*   series_count, folder number used
    card,                  \* L2 / P1 card: list of folders, each a name and a listing
    walk,                  \* the folder of the card that os.walk yields next
    folder_summary,        \* summary rows of the L2 / P1 transfer
    primary,               \* the parent folder with what its files hold:
                           \*   relative path -> file
    backup,                \* the backup folder, likewise
    PIL_AVAILABLE,         \* whether the import of PIL succeeded
    base_dir_name,         \* "primary" or "backup": the folder being verified
    queue,                 \* the folders the running loop has yet to visit
    corrupted_files,       \* the verdicts of the TIFF corruption check
    total_files_checked,   \* the files the TIFF corruption check looked at
    corrupt_files,         \* the corrupt files of the site verified last
    total_sites,           \* counters of the verification
    total_files,
    total_corrupt,
    site_reports,          \* one row per verified site
    success_count,         \* counters of the backup
    skip_count,
    error_count,
    only_in_1,             \* the difference sets of compare_directories
    only_in_2,
    size_diff,
    is_identical,          \* the result of compare_directories
    affected_folders,
    folder_issues,         \* the issues of the discrepancy report by folder
    red_set_folders,       \* the SET folders found on the RED card
    blue_set_folders,      \* the SET folders found on the BLUE card
    set_index,             \* cursor of the SET folder assignment
    command,               \* the last line read by a prompt, stripped and
                           \*   in upper case
    denied                 \* the directories of the cards that cannot be
                           \*   listed and the plots of the parent folder in
                           \*   which no directory can be made

\* The variables of the multi-spectral transfer.
packVars ==
    << sd, set_assignments, files_by_plot, plot_id, i, current_folder_num,
       current_folder_count, summary, total_copied, total_skipped,
       all_summaries, grand_total_copied, grand_total_skipped, copy_errors,
       steps >>

\* The variables of the L2 and P1 transfers.
folderVars == << card, walk, folder_summary >>

\* The variables of the corruption scan, the verification and the backup.
checkVars ==
    << primary, backup, PIL_AVAILABLE, base_dir_name, queue, corrupted_files,
       total_files_checked, corrupt_files, total_sites, total_files,
       total_corrupt, site_reports, success_count, skip_count, error_count,
       only_in_1, only_in_2, size_diff, is_identical, affected_folders,
       folder_issues >>

\* The variables of the SET folder discovery, the dialogues and the faults of
\* the file system.
sessionVars ==
    << red_set_folders, blue_set_folders, set_index, command, denied >>

vars ==
    << pipeline, pc, run, today, unreadable, dest, previous, packVars,
       folderVars, checkVars, sessionVars >>

(***************************************************************************)
(* Multi-spectral transfer: collecting, sorting, packing                   *)
(***************************************************************************)

\* The list the packer walks: the variable all_tif_files is bound by the
\* loop over the plots to files_by_plot[plot_id] and keeps that binding.
all_tif_files == files_by_plot[plot_id]

\* The TIF files one camera holds for one SET, as file records in listing order.
CameraFiles(camera, set_folder) ==
    IF set_folder \in DOMAIN sd[camera]
    THEN LET listing == sd[camera][set_folder]
             tifs == SelectSeq(listing, LAMBDA n : IsTif(FileName(n)))
         IN  [x \in 1..Len(tifs) |->
                 [name |-> tifs[x], camera |-> camera, source_set |-> set_folder]]
    ELSE << >>

\* The records appended for the SETs set_folder, set_folder + 1, ... that are
\* assigned to plot: RED files then BLUE files of each SET in turn.
RECURSIVE CollectFrom(_, _, _)
CollectFrom(assignments, plot, set_folder) ==
    IF \A t \in DOMAIN assignments : t < set_folder THEN << >>
    ELSE (IF set_folder \in DOMAIN assignments /\ assignments[set_folder] = plot
          THEN CameraFiles("RED", set_folder) \o CameraFiles("BLUE", set_folder)
          ELSE << >>)
         \o CollectFrom(assignments, plot, set_folder + 1)

\* files_by_plot as built from the confirmed assignments.
FilesByPlot(assignments) ==
    [p \in { assignments[t] : t \in DOMAIN assignments } |->
        CollectFrom(assignments, p, 0)]

\* all_tif_files.sort(key=lambda x: x['filename']): stable, ascending; the
\* key of every entry is computed once.
Undecorate(sorted) == [x \in 1..Len(sorted) |-> sorted[x][2]]

SortByFilename(files) ==
    Undecorate(SortSeq([x \in 1..Len(files) |-> << FileName(files[x].name), files[x] >>],
                       LAMBDA a, b : StrLess(a[1], b[1])))

\* sorted(files_by_plot.keys())[-1]
LastPlot(plots) == CHOOSE p \in plots : \A q \in plots : PlotRank(q) <= PlotRank(p)

\* str(current_folder_num).zfill(3)
FolderName(num) == Zfill(StrOf(num), 3)

\* The names of the files in directory dir of the parent folder.
FilesIn(tree, dir) == IF dir \in DOMAIN tree THEN tree[dir] ELSE {}

\* os.makedirs(dir, exist_ok=True) followed by the copies that wrote the
\* files named in added to dir.
WithFiles(tree, dir, added) ==
    [d \in (DOMAIN tree) \cup {dir} |->
        IF d = dir THEN FilesIn(tree, dir) \cup added ELSE tree[d]]

\* A copy loop body that does not count a file that is already there.
CopyOneSkipUncounted(st, f, plot, num) ==
    IF f.name \in FilesIn(dest, << plot, today, num >>) \/ f.name \in st.added
    THEN [st EXCEPT !.total_skipped = @ + 1]
    ELSE IF f \in unreadable
    THEN [st EXCEPT !.copy_errors = @ + 1]
    ELSE [st EXCEPT !.added = @ \cup {f.name}, !.total_copied = @ + 1,
                    !.count = @ + 1]

\* One pass of the copy loop body for file record f into folder num of plot.
\* st.added holds the names written to that folder by this series so far.
CopyOne(st, f, plot, num) ==
    IF f.name \in FilesIn(dest, << plot, today, num >>) \/ f.name \in st.added
    THEN [st EXCEPT !.total_skipped = @ + 1, !.count = @ + 1]
    ELSE IF f \in unreadable
    THEN [st EXCEPT !.copy_errors = @ + 1]
    ELSE [st EXCEPT !.added = @ \cup {f.name}, !.total_copied = @ + 1,
                    !.count = @ + 1]

\* A copy loop that gives up the series at the first file that fails.
RECURSIVE CopySeriesAbort(_, _, _, _, _, _)
CopySeriesAbort(st, files, j, hi, plot, num) ==
    IF j >= hi THEN st
    ELSE IF CopyOne(st, files[j + 1], plot, num).copy_errors > st.copy_errors
    THEN CopyOne(st, files[j + 1], plot, num)
    ELSE CopySeriesAbort(CopyOne(st, files[j + 1], plot, num), files, j + 1, hi,
                         plot, num)

\* for j in range(j, hi): copy the series, one file after the other.
RECURSIVE CopySeries(_, _, _, _, _, _)
CopySeries(st, files, j, hi, plot, num) ==
    IF j >= hi THEN st
    ELSE CopySeries(CopyOne(st, files[j + 1], plot, num), files, j + 1, hi,
                    plot, num)

\* A rollover test that also rolls over when the series fills the bin
\* exactly.
NeedsNewFolderAtCap(count, series_count) ==
    count > 0 /\ (count + series_count) >= MAX_FILES_PER_FOLDER

\* A rollover test that looks at the count alone.
NeedsNewFolderWhenFull(count, series_count) ==
    count >= MAX_FILES_PER_FOLDER

\* Rollover test of the packer.
NeedsNewFolder(count, series_count) ==
    count > 0 /\ (count + series_count) > MAX_FILES_PER_FOLDER

\* The folder number the series is copied to.
NextFolderNum(num, roll) == IF roll THEN num + 1 ELSE num

\* A cursor that moves to the next file whatever the series.
AdvanceByOne(cursor, series_count) == cursor + 1

\* The cursor after a series.
Advance(cursor, series_count) == cursor + series_count

\* The per-plot lists after the loop over the plots has sorted each.
SortedByPlot(collected) ==
    [p \in DOMAIN collected |-> SortByFilename(collected[p])]

\* "CONFIRM ASSIGNMENTS AND BEGIN TRANSFER?" answered PROCEED: the files are
\* collected per plot, each plot's list is sorted, and the packer's
\* variables are initialised.  The packer's code follows the loop over the
\* plots, so it sees the list and the plot id of the last iteration.
BeginTransfer ==
    /\ pipeline = "multispec"
    /\ pc = "confirmed"
    /\ files_by_plot' = SortedByPlot(FilesByPlot(set_assignments))
    /\ plot_id' = LastPlot({ set_assignments[t] : t \in DOMAIN set_assignments })
    /\ all_summaries' = << >>
    /\ grand_total_copied' = 0
    /\ grand_total_skipped' = 0
    /\ current_folder_num' = 0
    /\ current_folder_count' = 0
    /\ summary' = << >>
    /\ total_copied' = 0
    /\ total_skipped' = 0
    /\ i' = 0
    /\ copy_errors' = 0
    /\ steps' = << >>
    /\ pc' = "pack"
    /\ UNCHANGED << pipeline, run, today, sd, unreadable, set_assignments, dest, previous, folderVars,
                    checkVars, sessionVars >>

\* The state after the series at the cursor has been copied to folder num.
AfterSeries(series_count, roll, num, st) ==
    /\ summary' = IF roll
                  THEN Append(summary, [Folder |-> FolderName(current_folder_num),
                                        Files |-> current_folder_count])
                  ELSE summary
    /\ current_folder_num' = num
    /\ dest' = WithFiles(dest, << plot_id, today, num >>, st.added)
    /\ total_copied' = st.total_copied
    /\ total_skipped' = st.total_skipped
    /\ current_folder_count' = st.count
    /\ copy_errors' = st.copy_errors
    /\ steps' = Append(steps, [at |-> i, count |-> current_folder_count,
                               series_count |-> series_count, num |-> num])
    /\ i' = Advance(i, series_count)

\* The rollover decision, the folder and the copy loop for a series of
\* series_count entries at the cursor.
PlaceSeries(files, series_count, roll, num) ==
    AfterSeries(series_count, roll, num,
                CopySeries([added |-> {}, total_copied |-> total_copied,
                            total_skipped |-> total_skipped,
                            count |-> IF roll THEN 0 ELSE current_folder_count,
                            copy_errors |-> copy_errors],
                           files, i, Min(i + series_count, Len(files)),
                           plot_id, num))

RollSeries(files, series_count, roll) ==
    PlaceSeries(files, series_count, roll, NextFolderNum(current_folder_num, roll))

DetectedSeries(files, series_count) ==
    RollSeries(files, series_count,
               NeedsNewFolder(current_folder_count, series_count))

\* os.makedirs(target_path, exist_ok=True) raises: no directory can be made
\* under the plot's folder of the parent folder.  The call is in no try, so
\* the exception reaches the handler of main, which logs it and calls
\* sys.exit(1).
MakedirsRaises(plot) == << "parent", plot >> \in denied

\* One iteration of the packer's while loop: detect the series, roll over to
\* a new folder if needed, create the folder, copy the series, advance; the
\* process ends when the folder cannot be created.
PackStep ==
    /\ pc = "pack"
    /\ i < Len(all_tif_files)
    /\ IF MakedirsRaises(plot_id)
       THEN /\ pc' = "exited"
            /\ UNCHANGED << dest, i, current_folder_num, current_folder_count,
                            summary, total_copied, total_skipped, copy_errors,
                            steps >>
       ELSE /\ DetectedSeries(all_tif_files, SeriesCount(all_tif_files, i))
            /\ pc' = pc
    /\ UNCHANGED << pipeline, run, today, sd, unreadable, set_assignments,
                    files_by_plot, plot_id, all_summaries, grand_total_copied,
                    grand_total_skipped, previous, folderVars, checkVars, sessionVars >>

\* A final summary that adds the open folder whatever it holds.
FinalSummaryAlways(folders, num, count) ==
    Append(folders, [Folder |-> FolderName(num), Files |-> count])

\* The folders of the summary once the loop has ended: the open folder is
\* added if it holds files.
FinalSummary(folders, num, count) ==
    IF count > 0
    THEN Append(folders, [Folder |-> FolderName(num), Files |-> count])
    ELSE folders

\* After the loop: the last folder is added to the summary, and the plot's
\* summary and the grand totals are stored.
FinishPack ==
    /\ pc = "pack"
    /\ i >= Len(all_tif_files)
    /\ LET final == FinalSummary(summary, current_folder_num, current_folder_count)
       IN  /\ summary' = final
           /\ all_summaries' =
                  [p \in (DOMAIN all_summaries) \cup {plot_id} |->
                      IF p = plot_id
                      THEN [folders |-> final, total_copied |-> total_copied,
                            total_skipped |-> total_skipped]
                      ELSE all_summaries[p]]
    /\ grand_total_copied' = grand_total_copied + total_copied
    /\ grand_total_skipped' = grand_total_skipped + total_skipped
    /\ pc' = "done"
    /\ UNCHANGED << pipeline, run, today, sd, unreadable, set_assignments,
                    files_by_plot, plot_id, i, current_folder_num,
                    current_folder_count, total_copied, total_skipped, dest,
                    copy_errors, steps, previous, folderVars, checkVars, sessionVars >>


(***************************************************************************)
(* L2 (LiDAR) and P1 (RGB) transfers: one folder of the card at a time     *)
(***************************************************************************)

\* The required file types of the running transfer.
RequiredFiles(kind) ==
    IF kind = "lidar" THEN LIDAR_REQUIRED_FILES ELSE P1_REQUIRED_FILES

\* f.split('.')[-1]
LastPart(parts) == parts[Len(parts)]

\* Present extensions taken from every file, with or without a dot.
PresentExtensionsOfAll(files) ==
    { Upper(LastPart(Split(files[n], DOT))) : n \in 1..Len(files) }

\* present_extensions = {f.split('.')[-1].upper() for f in files if '.' in f}
PresentExtensions(files) ==
    { Upper(LastPart(Split(files[n], DOT))) :
          n \in { m \in 1..Len(files) : Contains(files[m], DOT) } }

\* missing = [ext for ext in required if ext not in present_extensions]
MissingOf(required, present_extensions) ==
    SelectSeq(required, LAMBDA ext : ext \notin present_extensions)

\* A plot id taken from the first part of the folder name.
PlotIdFirstPart(parts) ==
    IF Len(parts) >= 2 THEN parts[1] ELSE UNKNOWN

\* plot_id = folder_name.split('-')[-2], "UNKNOWN" on IndexError.
PlotIdParts(parts) ==
    IF Len(parts) >= 2 THEN parts[Len(parts) - 1] ELSE UNKNOWN

PlotIdOf(folder_name) == PlotIdParts(Split(folder_name, DASH))

\* The test of the walk on a directory: it holds files and, for P1, its
\* name contains "-P1".
Walked(kind, folder) ==
    /\ Len(folder.files) > 0
    /\ kind = "rgb" => HasSubstring(folder.name, P1_MARK)

\* The early returns before the walk: no folder on the L2 card, or no folder
\* with "-P1" in its name on the P1 card.
NothingToCopy(kind, folders) ==
    IF kind = "lidar" THEN Len(folders) = 0
    ELSE ~ \E n \in 1..Len(folders) : HasSubstring(folders[n].name, P1_MARK)

\* The position of the first file of folder w whose copy raises, or one past
\* the listing when every copy succeeds.
RECURSIVE FirstUnreadable(_, _, _)
FirstUnreadable(w, files, n) ==
    IF n > Len(files) \/ << w, n >> \in unreadable THEN n
    ELSE FirstUnreadable(w, files, n + 1)

\* The summary row appended for a folder.
SummaryRow(folder, plot, status, missing) ==
    [Folder |-> folder.name, PlotID |-> plot, Files |-> Len(folder.files),
     Status |-> status, Missing |-> missing]

\* copy_with_speed(root, dest_folder): the destination directory is made and
\* the files are copied in listing order until one raises.
CopyWithSpeed(folder, plot, stop) ==
    /\ dest' = WithFiles(dest, << plot, today, folder.name >>,
                       { folder.files[n] : n \in 1..(stop - 1) })
    /\ folder_summary' =
           Append(folder_summary,
                  SummaryRow(folder, plot,
                             IF stop > Len(folder.files) THEN "Copied" ELSE "Error",
                             << >>))

\* A folder transfer that copies without looking for the destination.
CopyFolderAgain(folder, plot) ==
    CopyWithSpeed(folder, plot, FirstUnreadable(walk, folder.files, 1))

\* A folder with every required type: skipped when its destination exists,
\* copied otherwise.
CopyFolder(folder, plot) ==
    IF << plot, today, folder.name >> \in DOMAIN dest
    THEN /\ folder_summary' =
                Append(folder_summary,
                       SummaryRow(folder, plot, "Already exists", << >>))
         /\ UNCHANGED dest
    ELSE CopyWithSpeed(folder, plot, FirstUnreadable(walk, folder.files, 1))

\* A walk body that makes the destination directory of a folder before it
\* looks at the missing types.
ClassifiedMakesDir(folder, missing) ==
    IF Len(missing) > 0
    THEN /\ folder_summary' =
                Append(folder_summary, SummaryRow(folder, UNKNOWN, "Missing", missing))
         /\ dest' = WithFiles(dest, << UNKNOWN, today, folder.name >>, {})
    ELSE CopyFolder(folder, PlotIdOf(folder.name))

\* The body of the walk for a folder, given its missing types.
Classified(folder, missing) ==
    IF Len(missing) > 0
    THEN /\ folder_summary' =
                Append(folder_summary, SummaryRow(folder, UNKNOWN, "Missing", missing))
         /\ UNCHANGED dest
    ELSE CopyFolder(folder, PlotIdOf(folder.name))

\* The prompt before the walk has been answered; its answer is not read.
\* The transfer returns at once when there is nothing to copy.
BeginFolders ==
    /\ pipeline \in {"lidar", "rgb"}
    /\ pc = "confirmed"
    /\ folder_summary' = << >>
    /\ walk' = 1
    /\ pc' = IF NothingToCopy(pipeline, card) THEN "done" ELSE "walk"
    /\ UNCHANGED << pipeline, run, today, unreadable, dest, previous,
                    packVars, card, checkVars, sessionVars >>

\* The folder is complete and the directory it is to be copied into cannot
\* be created: os.makedirs raises outside any try.
TargetFails(kind, folder) ==
    /\ Walked(kind, folder)
    /\ Len(MissingOf(RequiredFiles(kind), PresentExtensions(folder.files))) = 0
    /\ MakedirsRaises(PlotIdOf(folder.name))

\* One iteration of "for root, dirs, files in os.walk(source_folder)"; the
\* process ends when the target directory cannot be created.
ProcessFolder ==
    /\ pc = "walk"
    /\ walk <= Len(card)
    /\ IF TargetFails(pipeline, card[walk])
       THEN /\ pc' = "exited"
            /\ UNCHANGED << folder_summary, dest, walk >>
       ELSE /\ IF Walked(pipeline, card[walk])
               THEN Classified(card[walk],
                               MissingOf(RequiredFiles(pipeline),
                                         PresentExtensions(card[walk].files)))
               ELSE UNCHANGED << folder_summary, dest >>
            /\ walk' = walk + 1
            /\ pc' = pc
    /\ UNCHANGED << pipeline, run, today, unreadable, previous, packVars, card,
                    checkVars, sessionVars >>

\* The walk is over: the summary table is printed.
FinishFolders ==
    /\ pc = "walk"
    /\ walk > Len(card)
    /\ pc' = "done"
    /\ UNCHANGED << pipeline, run, today, unreadable, dest, previous,
                    packVars, folderVars, checkVars, sessionVars >>

\* The operator interrupts the copy of a folder (KeyboardInterrupt inside
\* copy_with_speed): the destination folder has been made and holds the
\* files copied so far, and main ends the process with sys.exit(1).
InterruptFolder ==
    /\ pipeline \in {"lidar", "rgb"}
    /\ pc = "walk"
    /\ walk <= Len(card)
    /\ Walked(pipeline, card[walk])
    /\ Len(MissingOf(RequiredFiles(pipeline),
                     PresentExtensions(card[walk].files))) = 0
    /\ ~ MakedirsRaises(PlotIdOf(card[walk].name))
    /\ << PlotIdOf(card[walk].name), today, card[walk].name >> \notin DOMAIN dest
    /\ \E k \in 0 .. (FirstUnreadable(walk, card[walk].files, 1) - 1) :
           /\ k < Len(card[walk].files)
           /\ dest' = WithFiles(dest,
                                << PlotIdOf(card[walk].name), today, card[walk].name >>,
                                { card[walk].files[n] : n \in 1 .. k })
    /\ pc' = "interrupted"
    /\ UNCHANGED << pipeline, run, today, unreadable, previous, packVars,
                    folderVars, checkVars, sessionVars >>

(***************************************************************************)
(* Running a transfer again                                                *)
(***************************************************************************)

\* The transfer step is entered again from the main menu (BACK at the next
\* step, then PROCEED), or the program is started again after a run that was
\* interrupted, with the same cards and, for the multi-spectral transfer,
\* the same assignments.  What the run before left is remembered.
\* The day may have changed and an unreadable file may have become readable.
Restart ==
    /\ pc \in {"done", "interrupted"}
    /\ run < MaxRuns
    /\ previous' = [set |-> TRUE, today |-> today, unreadable |-> unreadable,
                 dest |-> dest, total_skipped |-> total_skipped,
                 copy_errors |-> copy_errors, steps |-> steps,
                 folder_summary |-> folder_summary]
    /\ run' = run + 1
    /\ \E u \in {unreadable, {}} : unreadable' = u
    /\ \E d \in {today, today + 1} : d <= MaxDays /\ today' = d
    /\ pc' = "confirmed"
    /\ UNCHANGED << pipeline, dest, packVars, folderVars, checkVars, sessionVars >>

(***************************************************************************)
(* Initial states: the cards, the unreadable files, the confirmed SET      *)
(* assignments.  The parent folder is empty before the first run.          *)
(***************************************************************************)

RECURSIVE SeqOf(_)
SeqOf(S) == IF S = {} THEN << >>
            ELSE LET x == CHOOSE y \in S : TRUE IN << x >> \o SeqOf(S \ {x})

\* A directory listing of the names in S; os.listdir promises no order, the
\* one taken here is descending by name.
ListingOf(S) ==
    SortSeq(SeqOf(S), LAMBDA a, b : StrLess(FileName(b), FileName(a)))

\* The names of a small card.
SmallNames ==
    { NameCode(0, 1, 0), NameCode(0, 2, 1), NameCode(0, 13, 0),
      NameCode(0, 14, 0), NameCode(0, 1, 2) }

Listings(max) ==
    { ListingOf(S) : S \in { T \in SUBSET SmallNames : Cardinality(T) <= max } }

\* The file records of SET t of camera c.
RecordsOf(cards, c, t) ==
    { [name |-> cards[c][t][x], camera |-> c, source_set |-> t] :
          x \in 1..Len(cards[c][t]) }

\* The members of capture k with the suffixes in S, ascending by name.
SeriesListing(k, S) ==
    SortSeq(SeqOf({ NameCode(k, s, 0) : s \in S }),
            LAMBDA a, b : StrLess(FileName(a), FileName(b)))

\* The suffixes of a complete capture in the order of their names.
FullOrder == SeriesListing(0, 1..SERIES_LOOKAHEAD)

\* n complete captures 0..n-1, ascending by name.
FullCaptures(n) ==
    [x \in 1..(SERIES_LOOKAHEAD * n) |->
        NameCode((x - 1) \div SERIES_LOOKAHEAD,
                 SuffixOf(FullOrder[((x - 1) % SERIES_LOOKAHEAD) + 1]), 0)]

\* The shapes of the captures that follow the complete ones: a single band,
\* six, ten, eleven and twelve bands, and two files with lettered suffixes.
TailShapes == << {1}, 1..6, 1..10, 1..11, 1..12, {13, 15} >>

\* The captures after the complete ones: one run per entry of shapes.
RECURSIVE TailListing(_, _)
TailListing(shapes, r) ==
    IF r > Len(shapes) THEN << >>
    ELSE SeriesListing(LongFlightCaptures + r, TailShapes[shapes[r]])
         \o TailListing(shapes, r + 1)

TailChoices == UNION { [1..m -> 1..Len(TailShapes)] : m \in 0..MaxTailRuns }

\* At most MaxUnreadable of the files in S.
SomeOf(S) == { U \in SUBSET S : Cardinality(U) <= MaxUnreadable }

InitCommon ==
    /\ pc = "confirmed"
    /\ run = 1
    /\ today = 1
    /\ dest = << >>
    /\ previous = [set |-> FALSE, today |-> 1, unreadable |-> {}, dest |-> << >>,
                   total_skipped |-> 0, copy_errors |-> 0, steps |-> << >>,
                   folder_summary |-> << >>]

InitPackVars ==
    /\ files_by_plot = << >>
    /\ plot_id = ""
    /\ i = 0
    /\ current_folder_num = 0
    /\ current_folder_count = 0
    /\ summary = << >>
    /\ total_copied = 0
    /\ total_skipped = 0
    /\ all_summaries = << >>
    /\ grand_total_copied = 0
    /\ grand_total_skipped = 0
    /\ copy_errors = 0
    /\ steps = << >>

InitFolderVars ==
    /\ walk = 1
    /\ folder_summary = << >>

\* Before any scan, verification or backup: nothing counted or reported.
InitCheckVars ==
    /\ base_dir_name = "primary"
    /\ queue = << >>
    /\ corrupted_files = << >>
    /\ total_files_checked = 0
    /\ corrupt_files = << >>
    /\ total_sites = 0
    /\ total_files = 0
    /\ total_corrupt = 0
    /\ site_reports = << >>
    /\ success_count = 0
    /\ skip_count = 0
    /\ error_count = 0
    /\ only_in_1 = {}
    /\ only_in_2 = {}
    /\ size_diff = {}
    /\ is_identical = FALSE
    /\ affected_folders = {}
    /\ folder_issues = << >>

\* "PROCEED" and "BACK"
PROCEED == << 80, 82, 79, 67, 69, 69, 68 >>

BACK == << 66, 65, 67, 75 >>

\* The SET folders have been found and assigned, the prompts answered with
\* PROCEED, and the file system raises nothing but what unreadable names.
InitSessionVars ==
    /\ red_set_folders = (IF DOMAIN sd = {} THEN {} ELSE DOMAIN sd["RED"])
    /\ blue_set_folders = (IF DOMAIN sd = {} THEN {} ELSE DOMAIN sd["BLUE"])
    /\ set_index = Cardinality(DOMAIN set_assignments)
    /\ command = PROCEED
    /\ denied = {}

\* The transfers are modelled on the names in the parent folder (dest); what
\* the files hold is of no account to them.
NoContents ==
    /\ primary = << >>
    /\ backup = << >>
    /\ PIL_AVAILABLE = TRUE

\* Two SETs with a few files each, assigned to any plots.
InitSmall ==
    /\ pipeline = "multispec"
    /\ \E r0 \in Listings(MaxListing), r1 \in Listings(1),
          b0 \in {<< >>, << NameCode(0, 1, 0) >>} :
           sd = [c \in {"RED", "BLUE"} |->
                    IF c = "RED" THEN (0 :> r0 @@ 1 :> r1) ELSE (0 :> b0)]
    /\ unreadable \in SomeOf(RecordsOf(sd, "RED", 0))
    /\ set_assignments \in [{0, 1} -> SITE_DATABASE]
    /\ card = << >>
    /\ InitCommon /\ InitPackVars /\ InitFolderVars
    /\ InitCheckVars /\ NoContents /\ InitSessionVars

\* One SET of a long flight: the RED card holds the complete captures, the
\* BLUE card the captures after them, of which the first file may be
\* unreadable.
InitLong ==
    /\ pipeline = "multispec"
    /\ \E shapes \in TailChoices :
           sd = [c \in {"RED", "BLUE"} |->
                    IF c = "RED" THEN (0 :> FullCaptures(LongFlightCaptures))
                    ELSE (0 :> TailListing(shapes, 1))]
    /\ unreadable \in
           SomeOf({ r \in RecordsOf(sd, "BLUE", 0) : r.name = sd["BLUE"][0][1] })
    /\ set_assignments = (0 :> PlotOrder[1])
    /\ card = << >>
    /\ InitCommon /\ InitPackVars /\ InitFolderVars
    /\ InitCheckVars /\ NoContents /\ InitSessionVars

InitPack == InitSmall \/ InitLong

NextPack == BeginTransfer \/ PackStep \/ FinishPack \/ Restart

SpecPack == InitPack /\ [][NextPack]_vars

\* One SET of two captures on the RED card, each of any shape, of which one
\* file may be unreadable.
InitSeries ==
    /\ pipeline = "multispec"
    /\ \E a \in DOMAIN TailShapes, b \in DOMAIN TailShapes :
           sd = [c \in {"RED", "BLUE"} |->
                    IF c = "RED"
                    THEN (0 :> SeriesListing(0, TailShapes[a])
                                   \o SeriesListing(1, TailShapes[b]))
                    ELSE (0 :> << >>)]
    /\ unreadable \in SomeOf(RecordsOf(sd, "RED", 0))
    /\ set_assignments = (0 :> PlotOrder[1])
    /\ card = << >>
    /\ InitCommon /\ InitPackVars /\ InitFolderVars
    /\ InitCheckVars /\ NoContents /\ InitSessionVars

\* An iteration of the packer's loop can be taken: the guard of PackStep,
\* every step of which moves the cursor or ends the process.
PackStepEnabled == pc = "pack" /\ i < Len(all_tif_files)

\* The packer left to run: the loop of 1356-1426 waits for nothing, so an
\* iteration that can be taken is taken (weak fairness of PackStep, with its
\* guard for its enabling condition), and so is the code after the loop.
InitPackFair == InitSmall \/ InitSeries

SpecPackFair ==
    /\ InitPackFair /\ [][NextPack]_vars
    /\ ([]<>(~ PackStepEnabled) \/ []<><< PackStep >>_vars)
    /\ WF_vars(FinishPack)

\* The lower-case form of one character, for the listings of a card.
LowerChar(c) == IF c >= 65 /\ c <= 90 THEN c + 32 ELSE c

\* The name of a file of type ext on a card: "f.EXT" in style 1 and
\* "f.v2.ext" in style 2.
TypedFile(ext, style) ==
    IF style = 1 THEN << 102, DOT >> \o ext
    ELSE << 102, DOT, 118, 50, DOT >> \o [n \in 1..Len(ext) |-> LowerChar(ext[n])]

\* Files beside the typed ones: one named like the first required type
\* but without a dot, "notes.txt", and "f." with nothing after the dot.
ExtraFiles(required) ==
    << required[1], << 110, 111, 116, 101, 115, DOT, 116, 120, 116 >>,
       << 102, DOT >> >>

\* The listing of a folder that lacks the required types at the positions in
\* dropped.
FolderListing(required, dropped, style, extras) ==
    LET kept == SelectSeq([n \in 1..Len(required) |-> n],
                          LAMBDA n : n \notin dropped)
    IN  [n \in 1..Len(kept) |-> TypedFile(required[kept[n]], style)]
        \o (IF extras THEN ExtraFiles(required) ELSE << >>)

\* The listings the first folder of a card may have: empty, or the required
\* types less at most MaxMissing of them, with or without extra files.
FolderListings(required) ==
    {<< >>} \cup
    { FolderListing(required, dropped, style, extras) :
          dropped \in { D \in SUBSET (1..Len(required)) : Cardinality(D) <= MaxMissing },
          style \in {1, 2}, extras \in BOOLEAN }

\* Folder names: "X-AB-P1", "AB-P1", "P1", "X-CD-L2", "-P1".
FolderNames ==
    { << 88, DASH, 65, 66, DASH, 80, 49 >>, << 65, 66, DASH, 80, 49 >>,
      << 80, 49 >>, << 88, DASH, 67, 68, DASH, 76, 50 >>, << DASH, 80, 49 >> }

\* The second folder of a card, "Y-EF-P1": complete, or lacking the first
\* required type.
SecondFolders(required) ==
    { [name |-> << 89, DASH, 69, 70, DASH, 80, 49 >>,
       files |-> FolderListing(required, dropped, 1, FALSE)] :
          dropped \in {{}, {1}} }

\* The cards: no folder, one folder, or that folder and a second one.
Cards(required) ==
    LET firsts == { [name |-> nm, files |-> fs] :
                        nm \in FolderNames, fs \in FolderListings(required) }
    IN  {<< >>} \cup { << f >> : f \in firsts }
        \cup (IF MaxFolders >= 2
              THEN { << f, g >> : f \in firsts, g \in SecondFolders(required) }
              ELSE {})

\* The files of the first folder that may be unreadable: its first and its
\* last, as <<folder, position>>.
FragileFiles(folders) ==
    IF Len(folders) = 0 THEN {}
    ELSE { << 1, n >> : n \in {1, Len(folders[1].files)} \ {0} }

\* An L2 or a P1 card in the reader.
InitFolder ==
    /\ pipeline \in {"lidar", "rgb"}
    /\ card \in Cards(RequiredFiles(pipeline))
    /\ unreadable \in SomeOf(FragileFiles(card))
    /\ sd = << >>
    /\ set_assignments = << >>
    /\ InitCommon /\ InitPackVars /\ InitFolderVars
    /\ InitCheckVars /\ NoContents /\ InitSessionVars

NextFolder == BeginFolders \/ ProcessFolder \/ FinishFolders \/ Restart

SpecFolder == InitFolder /\ [][NextFolder]_vars

\* Any of the three transfers.
Init == InitPack \/ InitFolder

Next ==
    \/ BeginTransfer \/ PackStep \/ FinishPack
    \/ BeginFolders \/ ProcessFolder \/ FinishFolders
    \/ Restart

Spec == Init /\ [][Next]_vars

(***************************************************************************)
(* Files with contents: the parent folder and the backup folder as the     *)
(* corruption scan, the verification and the backup read them.  A tree     *)
(* maps the path of a file relative to the folder, a string with '/'       *)
(* between its segments, to what the file holds.                           *)
(***************************************************************************)

SEP == 47          \* os.sep, '/'

\* os.path.join(a, b); the folder itself is the empty path.
Join(a, b) == IF a = << >> THEN b ELSE a \o << SEP >> \o b

\* The file or directory at path p lies in directory dir.
Under(p, dir) ==
    \/ dir = << >>
    \/ /\ Len(p) > Len(dir) + 1
       /\ SubSeq(p, 1, Len(dir)) = dir
       /\ p[Len(dir) + 1] = SEP

\* os.path.relpath(p, dir) for a p in dir.
RelPath(p, dir) == IF dir = << >> THEN p ELSE SubSeq(p, Len(dir) + 2, Len(p))

\* os.listdir(dir): the names of the files and directories in dir.
ListDir(tree, dir) ==
    { Split(RelPath(p, dir), SEP)[1] : p \in { q \in DOMAIN tree : Under(q, dir) } }

\* os.path.isdir(path); a directory is known by the files below it.
IsDir(tree, path) == \E p \in DOMAIN tree : path # << >> /\ Under(p, path)

\* sorted(S); also the order taken for os.listdir and os.walk, which
\* promise none.
Sorted(S) == SortSeq(SeqOf(S), StrLess)

\* The files os.walk(dir) yields, directory by directory.
WalkFiles(tree, dir) == Sorted({ p \in DOMAIN tree : Under(p, dir) })

\* The messages of the exceptions raised on a file:
\* "Truncated File Read" and
\* "[Errno 13] Permission denied: 'IMG_0000_1.tif'".
ShortMessage ==
    << 84, 114, 117, 110, 99, 97, 116, 101, 100, 32, 70, 105, 108, 101, 32, 82,
       101, 97, 100 >>

LongMessage ==
    << 91, 69, 114, 114, 110, 111, 32, 49, 51, 93, 32, 80, 101, 114, 109, 105,
       115, 115, 105, 111, 110, 32, 100, 101, 110, 105, 101, 100, 58, 32, 39,
       73, 77, 71, 95, 48, 48, 48, 48, 95, 49, 46, 116, 105, 102, 39 >>

\* What a file holds: whether os.stat finds it (a dangling link is listed
\* but not found), its size, its first four bytes, and the message of the
\* exception that open() or Image.verify() raises on it, if any.
File(found, size, header, open_raises, verify_raises) ==
    [exists |-> found, size |-> size, header |-> header,
     open_raises |-> open_raises, verify_raises |-> verify_raises]

\* A readable file of the given size that starts with the given bytes.
Holding(size, header) == File(TRUE, size, header, << >>, << >>)

\* b'II*\x00' and b'MM\x00*'
LITTLE_ENDIAN == << 73, 73, 42, 0 >>

BIG_ENDIAN == << 77, 77, 0, 42 >>

\* The files a TIFF name may stand for: sound in either byte order, a
\* dangling link, empty, one and three bytes long, zeros, the byte order of
\* one header with the magic number of the other, unreadable, and sound at
\* the start but failing the decode with a short or a long message.
TiffFiles ==
    { Holding(100, LITTLE_ENDIAN), Holding(100, BIG_ENDIAN),
      File(FALSE, 0, << >>, << >>, << >>),
      Holding(0, << >>),
      Holding(1, << 73 >>),
      Holding(3, << 73, 73, 42 >>),
      Holding(100, << 0, 0, 0, 0 >>),
      Holding(100, << 73, 73, 0, 42 >>),
      File(TRUE, 100, LITTLE_ENDIAN, << LongMessage >>, << >>),
      File(TRUE, 100, LITTLE_ENDIAN, << >>, << ShortMessage >>),
      File(TRUE, 100, BIG_ENDIAN, << >>, << LongMessage >>) }

(***************************************************************************)
(* The TIFF corruption check that follows the packer                       *)
(***************************************************************************)

\* The characters of an exception message kept in a reason.
REASON_CHARS == 30

\* A cut that keeps the 25 characters the report prints of a reason.
Truncated25(message) == SubSeq(message, 1, Min(Len(message), 25))

\* str(e)[:30]
Truncated(message) == SubSeq(message, 1, Min(Len(message), REASON_CHARS))

\* A reason: a fixed text, followed for an exception by its cut message.
Reason(label, text) == [label |-> label, text |-> text]

\* The test of the magic numbers on the four bytes read.
ValidHeader(header) ==
    \/ SubSeq(header, 1, 2) = << 73, 73 >> /\ SubSeq(header, 3, 4) = << 42, 0 >>
    \/ SubSeq(header, 1, 2) = << 77, 77 >> /\ SubSeq(header, 3, 4) = << 0, 42 >>

\* A check that reads the header before it asks for the size.
TiffCheckHeaderFirst(f, pil) ==
    IF ~ f.exists THEN << Reason("File not found", << >>) >>
    ELSE IF f.open_raises # << >>
    THEN << Reason("Read error: ", Truncated(f.open_raises[1])) >>
    ELSE IF Len(f.header) < 4 THEN << Reason("Invalid header (too short)", << >>) >>
    ELSE IF ~ ValidHeader(f.header) THEN << Reason("Invalid TIFF header", << >>) >>
    ELSE IF f.size = 0 THEN << Reason("Zero size", << >>) >>
    ELSE IF pil /\ f.verify_raises # << >>
    THEN << Reason("PIL verification failed: ", Truncated(f.verify_raises[1])) >>
    ELSE << >>

\* The body of the try for one TIFF file: the reasons appended for it, none
\* for a file that passes.  Every branch that appends ends the iteration.
TiffCheck(f, pil) ==
    IF ~ f.exists THEN << Reason("File not found", << >>) >>
    ELSE IF f.size = 0 THEN << Reason("Zero size", << >>) >>
    ELSE IF f.open_raises # << >>
    THEN << Reason("Read error: ", Truncated(f.open_raises[1])) >>
    ELSE IF Len(f.header) < 4 THEN << Reason("Invalid header (too short)", << >>) >>
    ELSE IF ~ ValidHeader(f.header) THEN << Reason("Invalid TIFF header", << >>) >>
    ELSE IF pil /\ f.verify_raises # << >>
    THEN << Reason("PIL verification failed: ", Truncated(f.verify_raises[1])) >>
    ELSE << >>

\* The variables the transfers keep and the checks leave alone.
transferVars ==
    << run, today, unreadable, dest, previous, packVars, folderVars,
       sessionVars >>

scanVars == << corrupted_files, total_files_checked >>

verifyVars ==
    << base_dir_name, corrupt_files, total_sites, total_files, total_corrupt,
       site_reports >>

backupVars == << success_count, skip_count, error_count >>

diffVars ==
    << only_in_1, only_in_2, size_diff, is_identical, affected_folders,
       folder_issues >>

\* The characters of a plot id of SITE_DATABASE.
PlotChars(p) ==
    IF p = PlotOrder[1]
    THEN << 78, 84, 65, 70, 73, 78, 48, 48, 48, 50 >>
    ELSE << 83, 65, 65, 70, 76, 66, 48, 48, 51, 48 >>

\* "imagery/multispec/level0_raw"
MULTISPEC_LEVEL0 ==
    << 105, 109, 97, 103, 101, 114, 121, SEP, 109, 117, 108, 116, 105, 115, 112,
       101, 99, SEP, 108, 101, 118, 101, 108, 48, 95, 114, 97, 119 >>

\* target_base of a plot, relative to the parent folder.
TargetBase(plot) == Join(Join(PlotChars(plot), StrOf(today)), MULTISPEC_LEVEL0)

\* The output folders of a plot in the order the check visits them: the
\* sorted entries of target_base that are directories.
OutputFolders(plot) ==
    LET dirs == SelectSeq(Sorted(ListDir(primary, TargetBase(plot))),
                          LAMBDA d : IsDir(primary, Join(TargetBase(plot), d)))
    IN  [n \in 1..Len(dirs) |-> [plot |-> plot, output_folder |-> dirs[n]]]

\* The output folders of the plots in all_summaries, plot by plot.
RECURSIVE ScanQueue(_)
ScanQueue(plots) ==
    IF plots = << >> THEN << >>
    ELSE OutputFolders(Head(plots)) \o ScanQueue(Tail(plots))

\* The verdicts appended for the file of that name in the folder.
Verdicts(at, filename) ==
    LET reasons ==
            TiffCheck(primary[Join(Join(TargetBase(at.plot), at.output_folder),
                                   filename)],
                      PIL_AVAILABLE)
    IN  [n \in 1..Len(reasons) |->
            [file |-> filename, folder |-> at.output_folder, plot |-> at.plot,
             reason |-> reasons[n]]]

\* A loop over the files of a folder that ends at the first corrupt file.
RECURSIVE ScanFilesStopAtCorrupt(_, _, _)
ScanFilesStopAtCorrupt(names, at, st) ==
    IF names = << >> \/ st.folder_corrupted # << >> THEN st
    ELSE ScanFilesStopAtCorrupt(
             Tail(names), at,
             IF IsTif(Head(names))
             THEN [checked |-> st.checked + 1,
                   folder_corrupted |->
                       st.folder_corrupted \o Verdicts(at, Head(names))]
             ELSE st)

\* "for filename in os.listdir(folder_path)": every TIFF name is counted
\* and checked, whatever the files before it were found to be.
RECURSIVE ScanFiles(_, _, _)
ScanFiles(names, at, st) ==
    IF names = << >> THEN st
    ELSE ScanFiles(
             Tail(names), at,
             IF IsTif(Head(names))
             THEN [checked |-> st.checked + 1,
                   folder_corrupted |->
                       st.folder_corrupted \o Verdicts(at, Head(names))]
             ELSE st)

\* The result of the check of one output folder.
ScannedFolder(at) ==
    ScanFiles(Sorted(ListDir(primary, Join(TargetBase(at.plot), at.output_folder))),
              at, [checked |-> total_files_checked, folder_corrupted |-> << >>])

\* The packer has finished: the corruption check of the plots in
\* all_summaries begins.
BeginScan ==
    /\ pipeline = "multispec"
    /\ pc = "packed"
    /\ corrupted_files' = << >>
    /\ total_files_checked' = 0
    /\ queue' = ScanQueue(SelectSeq(PlotOrder, LAMBDA p : p \in DOMAIN all_summaries))
    /\ pc' = "scan"
    /\ UNCHANGED << pipeline, transferVars, primary, backup, PIL_AVAILABLE,
                    verifyVars, backupVars, diffVars >>

\* A check that removes the files it finds corrupt.
ScanFolderDeleting ==
    /\ pc = "scan"
    /\ queue # << >>
    /\ corrupted_files' = corrupted_files \o ScannedFolder(Head(queue)).folder_corrupted
    /\ total_files_checked' = ScannedFolder(Head(queue)).checked
    /\ queue' = Tail(queue)
    /\ primary' =
           [p \in { q \in DOMAIN primary :
                      \A n \in 1..Len(ScannedFolder(Head(queue)).folder_corrupted) :
                          q # Join(Join(TargetBase(Head(queue).plot),
                                        Head(queue).output_folder),
                                   ScannedFolder(Head(queue)).folder_corrupted[n].file) }
              |-> primary[p]]
    /\ UNCHANGED << pipeline, pc, transferVars, backup, PIL_AVAILABLE,
                    verifyVars, backupVars, diffVars >>

\* One output folder is checked; its corrupt files are added to the report.
ScanFolder ==
    /\ pc = "scan"
    /\ queue # << >>
    /\ corrupted_files' = corrupted_files \o ScannedFolder(Head(queue)).folder_corrupted
    /\ total_files_checked' = ScannedFolder(Head(queue)).checked
    /\ queue' = Tail(queue)
    /\ UNCHANGED << pipeline, pc, transferVars, primary, backup, PIL_AVAILABLE,
                    verifyVars, backupVars, diffVars >>

\* Every folder is checked: the corruption report is printed; the files
\* stay where they are.
FinishScan ==
    /\ pc = "scan"
    /\ queue = << >>
    /\ pc' = "scanned"
    /\ UNCHANGED << pipeline, transferVars, checkVars >>

(***************************************************************************)
(* Verification of the parent folder and of the backup folder              *)
(***************************************************************************)

\* A generic check that also asks a file for a TIFF header.
check_file_corruption_tiff(f) ==
    \/ ~ f.exists
    \/ f.size = 0
    \/ f.open_raises # << >>
    \/ Len(f.header) < 4
    \/ ~ ValidHeader(f.header)

\* check_file_corruption(file_path): True for a file that is not found, is
\* empty, or raises when its first 1024 bytes are read.
check_file_corruption(f) ==
    \/ ~ f.exists
    \/ f.size = 0
    \/ f.open_raises # << >>

\* The folder being verified.
BaseTree == IF base_dir_name = "primary" THEN primary ELSE backup

\* The entries of a folder that are directories, in the order they are
\* visited.
SiteFolders(tree) ==
    SelectSeq(Sorted(ListDir(tree, << >>)), LAMBDA d : IsDir(tree, d))

\* The files of a site found corrupt, relative to the site.
CorruptFiles(tree, site) ==
    LET found == SelectSeq(WalkFiles(tree, site),
                           LAMBDA p : check_file_corruption(tree[p]))
    IN  [n \in 1..Len(found) |-> RelPath(found[n], site)]

(***************************************************************************)
(* The proceed prompt                                                      *)
(***************************************************************************)

\* s.strip(): without the blanks at its ends.
RECURSIVE Strip(_)
Strip(s) ==
    IF s = << >> THEN s
    ELSE IF Head(s) = 32 THEN Strip(Tail(s))
    ELSE IF s[Len(s)] = 32 THEN Strip(SubSeq(s, 1, Len(s) - 1))
    ELSE s

\* What the operator may type at a prompt: "PROCEED", "BACK", " back ",
\* "NTAFIN0002", "saaflb0030", "XX" and nothing.
Lines ==
    { PROCEED, BACK, << 32, 98, 97, 99, 107, 32 >>,
      << 78, 84, 65, 70, 73, 78, 48, 48, 48, 50 >>,
      << 115, 97, 97, 102, 108, 98, 48, 48, 51, 48 >>,
      << 88, 88 >>, << >> }

\* input(...).strip().upper()
Input(line) == Upper(Strip(line))

\* proceed_prompt() as the LiDAR transfer, the RGB transfer, the
\* verification and the backup call it: a line is read until it is PROCEED
\* or BACK, and the caller goes on to its work whichever of the two the
\* function returns, for the calls at 809, 922, 1670 and 1858 drop the value.
ProceedPrompt ==
    /\ pipeline \in {"lidar", "rgb", "verify"}
    /\ pc \in {"prompt", "ready"}
    /\ \E line \in Lines :
           /\ command' = Input(line)
           /\ pc' = IF Input(line) \in {PROCEED, BACK}
                    THEN (IF pc = "prompt" THEN "confirmed" ELSE "verified")
                    ELSE pc
    /\ UNCHANGED << pipeline, run, today, unreadable, dest, previous, packVars,
                    folderVars, checkVars, red_set_folders, blue_set_folders,
                    set_index, denied >>

\* verify_data_integrity("primary") is entered at step 6, and
\* verify_data_integrity("backup") at the end of ssd_backup.
BeginVerify ==
    /\ pipeline = "verify"
    /\ pc \in {"confirmed", "compared"}
    /\ base_dir_name' = IF pc = "confirmed" THEN "primary" ELSE "backup"
    /\ queue' = SiteFolders(IF pc = "confirmed" THEN primary ELSE backup)
    /\ total_sites' = 0
    /\ total_files' = 0
    /\ total_corrupt' = 0
    /\ site_reports' = << >>
    /\ corrupt_files' = << >>
    /\ pc' = "verify"
    /\ UNCHANGED << pipeline, transferVars, primary, backup, PIL_AVAILABLE,
                    scanVars, backupVars, diffVars >>

\* One site folder: every file below it is counted and checked.
VerifySite ==
    /\ pc = "verify"
    /\ queue # << >>
    /\ total_sites' = total_sites + 1
    /\ total_files' = total_files + Len(WalkFiles(BaseTree, Head(queue)))
    /\ corrupt_files' = CorruptFiles(BaseTree, Head(queue))
    /\ total_corrupt' = total_corrupt + Len(CorruptFiles(BaseTree, Head(queue)))
    /\ site_reports' =
           Append(site_reports,
                  [Site |-> Head(queue),
                   Files |-> Len(WalkFiles(BaseTree, Head(queue))),
                   Corrupt |-> Len(CorruptFiles(BaseTree, Head(queue))),
                   Status |-> IF Len(CorruptFiles(BaseTree, Head(queue))) > 0
                              THEN "ISSUES FOUND" ELSE "PASSED"])
    /\ queue' = Tail(queue)
    /\ UNCHANGED << pipeline, pc, transferVars, primary, backup, PIL_AVAILABLE,
                    base_dir_name, scanVars, backupVars, diffVars >>

\* The verification summary is printed.
FinishVerify ==
    /\ pc = "verify"
    /\ queue = << >>
    /\ pc' = IF base_dir_name = "primary" THEN "ready" ELSE "done"
    /\ UNCHANGED << pipeline, transferVars, checkVars >>

(***************************************************************************)
(* Backup of the parent folder and comparison of the two folders           *)
(***************************************************************************)

\* The position of the first file of the list whose copy raises: one that
\* os.stat does not find or that cannot be opened.
RECURSIVE FirstFailing(_, _, _)
FirstFailing(tree, files, n) ==
    IF n > Len(files) THEN n
    ELSE IF ~ tree[files[n]].exists \/ tree[files[n]].open_raises # << >> THEN n
    ELSE FirstFailing(tree, files, n + 1)

\* The backup folder after copy_with_speed has copied the given files of
\* the parent folder.
WithCopies(files, stop) ==
    [p \in (DOMAIN backup) \cup { files[n] : n \in 1..(stop - 1) } |->
        IF p \in DOMAIN backup THEN backup[p] ELSE primary[p]]

\* Step 7 is entered and the prompt answered.
BeginBackup ==
    /\ pipeline = "verify"
    /\ pc = "verified"
    /\ success_count' = 0
    /\ skip_count' = 0
    /\ error_count' = 0
    /\ queue' = SiteFolders(primary)
    /\ pc' = "backup"
    /\ UNCHANGED << pipeline, transferVars, primary, backup, PIL_AVAILABLE,
                    scanVars, verifyVars, diffVars >>

\* One site folder of the parent folder: skipped when the backup folder has
\* an entry of its name, copied otherwise until a copy raises.
BackupSite ==
    /\ pc = "backup"
    /\ queue # << >>
    /\ IF Head(queue) \in ListDir(backup, << >>)
       THEN /\ skip_count' = skip_count + 1
            /\ UNCHANGED << backup, success_count, error_count >>
       ELSE LET files == WalkFiles(primary, Head(queue))
                stop == FirstFailing(primary, files, 1)
            IN  /\ backup' = WithCopies(files, stop)
                /\ success_count' = success_count + (IF stop > Len(files) THEN 1 ELSE 0)
                /\ error_count' = error_count + (IF stop > Len(files) THEN 0 ELSE 1)
                /\ UNCHANGED skip_count
    /\ queue' = Tail(queue)
    /\ UNCHANGED << pipeline, pc, transferVars, primary, PIL_AVAILABLE,
                    scanVars, verifyVars, diffVars >>

\* get_file_list(directory): relative path -> size of every file found; a
\* file whose size cannot be read is left out.
get_file_list(tree) ==
    [p \in { q \in DOMAIN tree : tree[q].exists } |-> tree[p].size]

\* set(a.keys()) - set(b.keys())
OnlyIn(a, b) == (DOMAIN a) \ (DOMAIN b)

\* A comparison that reports a common file only when the backup is smaller.
SizeDiffSmaller(files1, files2) ==
    { f \in (DOMAIN files1) \cap (DOMAIN files2) : files1[f] > files2[f] }

\* size_diff = [f for f in common if files1[f] != files2[f]]
SizeDiff(files1, files2) ==
    { f \in (DOMAIN files1) \cap (DOMAIN files2) : files1[f] # files2[f] }

\* os.path.dirname(file_path)
Dirname(file_path) == RsplitHead(file_path, SEP)

\* A folder taken from the directory the file lies in.
NearestFolder(file_path) ==
    IF Contains(file_path, SEP)
    THEN Split(Dirname(file_path), SEP)[Len(Split(Dirname(file_path), SEP))]
    ELSE file_path

\* os.path.dirname(file_path).split(os.sep)[0] if os.sep in file_path
\* else file_path
TopFolder(file_path) ==
    IF Contains(file_path, SEP) THEN Split(Dirname(file_path), SEP)[1]
    ELSE file_path

\* The pairs added to affected_folders for the paths of one difference set.
Tagged(paths, issue) == { << TopFolder(p), issue >> : p \in paths }

AffectedFolders(only1, only2, differing) ==
    Tagged(only1, "Missing in backup") \cup Tagged(only2, "Extra in backup")
        \cup Tagged(differing, "Size mismatch")

\* A verdict that does not look at the sizes.
IsIdenticalByNames(only1, only2, differing) == ~ (only1 # {} \/ only2 # {})

\* is_identical = not (only_in_1 or only_in_2 or size_diff)
IsIdentical(only1, only2, differing) ==
    ~ (only1 # {} \/ only2 # {} \/ differing # {})

\* folder_issues of the discrepancy report: the issues of each folder, each
\* once; the report is made when the folders are not identical.
FolderIssues(identical, affected) ==
    IF ~ identical /\ affected # {}
    THEN [folder \in { a[1] : a \in affected } |->
             { a[2] : a \in { b \in affected : b[1] = folder } }]
    ELSE << >>

\* The results of compare_directories for the two file lists.
Compared(files1, files2) ==
    /\ only_in_1' = OnlyIn(files1, files2)
    /\ only_in_2' = OnlyIn(files2, files1)
    /\ size_diff' = SizeDiff(files1, files2)
    /\ is_identical' = IsIdentical(OnlyIn(files1, files2), OnlyIn(files2, files1),
                                   SizeDiff(files1, files2))
    /\ affected_folders' = AffectedFolders(OnlyIn(files1, files2),
                                          OnlyIn(files2, files1),
                                          SizeDiff(files1, files2))
    /\ folder_issues' =
           FolderIssues(IsIdentical(OnlyIn(files1, files2), OnlyIn(files2, files1),
                                    SizeDiff(files1, files2)),
                        AffectedFolders(OnlyIn(files1, files2),
                                        OnlyIn(files2, files1),
                                        SizeDiff(files1, files2)))

\* The backup loop has ended: compare_directories(primary_dir, backup_dir)
\* and the discrepancy report.
CompareDirectories ==
    /\ pc = "backup"
    /\ queue = << >>
    /\ Compared(get_file_list(primary), get_file_list(backup))
    /\ pc' = "compared"
    /\ UNCHANGED << pipeline, transferVars, primary, backup, PIL_AVAILABLE,
                    queue, scanVars, verifyVars, backupVars >>

(***************************************************************************)
(* Initial states of the checks                                            *)
(***************************************************************************)

\* The tree that holds the given <<path, file>> pairs.
TreeOf(entries) ==
    [p \in { e[1] : e \in entries } |-> (CHOOSE e \in entries : e[1] = p)[2]]

\* The pairs for the names of one directory.
InDir(dir, named) == { << Join(dir, e[1]), e[2] >> : e \in named }

\* What a first, a second and a third file of the output folders may be:
\* IMG_0000_1.tif is any of TiffFiles; beside it lies IMG_0000_2.TIFF, any
\* of TiffFiles, or notes.txt; folder 001 is absent or holds IMG_0001_1.tif.
FirstTiffs == { {<< FileName(NameCode(0, 1, 0)), f >>} : f \in TiffFiles }

SecondFiles ==
    { {<< FileName(NameCode(0, 2, 1)), f >>} : f \in TiffFiles }
    \cup { {<< << 110, 111, 116, 101, 115, DOT, 116, 120, 116 >>,
              Holding(100, << 0, 0, 0, 0 >>) >>} }

ThirdFiles ==
    { {} } \cup
    { {<< FileName(NameCode(1, 1, 0)), f >>} :
          f \in { Holding(100, BIG_ENDIAN), Holding(0, << >>),
                  File(TRUE, 100, LITTLE_ENDIAN, << ShortMessage >>, << >>) } }

\* What else the parent folder may hold: nothing, or readme.tif beside the
\* output folders and an output folder of the other plot with an empty
\* TIFF file.
Strays(base, other) ==
    { {},
      InDir(base, {<< << 114, 101, 97, 100, 109, 101, DOT, 116, 105, 102 >>,
                      Holding(0, << >>) >>})
      \cup InDir(Join(other, FolderName(0)),
                 {<< FileName(NameCode(0, 1, 0)), Holding(0, << >>) >>}) }

\* The packer has just finished for a plot the card held nothing for, and
\* the output folders of the plot hold what the transfers of the day left.
InitScan ==
    /\ pipeline = "multispec"
    /\ pc = "packed"
    /\ run = 1
    /\ today = 1
    /\ dest = << >>
    /\ previous = [set |-> FALSE, today |-> 1, unreadable |-> {}, dest |-> << >>,
                   total_skipped |-> 0, copy_errors |-> 0, steps |-> << >>,
                   folder_summary |-> << >>]
    /\ plot_id \in SITE_DATABASE
    /\ set_assignments = (0 :> plot_id)
    /\ sd = [c \in {"RED", "BLUE"} |-> (0 :> << >>)]
    /\ files_by_plot = (plot_id :> << >>)
    /\ all_summaries =
           (plot_id :> [folders |-> << >>, total_copied |-> 0, total_skipped |-> 0])
    /\ i = 0 /\ current_folder_num = 0 /\ current_folder_count = 0
    /\ summary = << >> /\ total_copied = 0 /\ total_skipped = 0
    /\ grand_total_copied = 0 /\ grand_total_skipped = 0
    /\ copy_errors = 0 /\ steps = << >>
    /\ unreadable = {}
    /\ card = << >>
    /\ InitFolderVars /\ InitCheckVars /\ InitSessionVars
    /\ PIL_AVAILABLE \in BOOLEAN
    /\ backup = << >>
    /\ \E a \in FirstTiffs, b \in SecondFiles, c \in ThirdFiles,
          s \in Strays(TargetBase(plot_id),
                       TargetBase(CHOOSE p \in SITE_DATABASE : p # plot_id)) :
           primary = TreeOf(InDir(Join(TargetBase(plot_id), FolderName(0)), a \cup b)
                            \cup InDir(Join(TargetBase(plot_id), FolderName(1)), c)
                            \cup s)

\* "site/file.jpg", "site/raw/img.tif", "site/old.jpg", "plot/a.tif" and
\* "log.txt".
SITE_FILE == << 115, 105, 116, 101, SEP, 102, 105, 108, 101, DOT, 106, 112, 103 >>

SITE_RAW == << 115, 105, 116, 101, SEP, 114, 97, 119, SEP, 105, 109, 103, DOT, 116, 105, 102 >>

SITE_OLD == << 115, 105, 116, 101, SEP, 111, 108, 100, DOT, 106, 112, 103 >>

PLOT_FILE == << 112, 108, 111, 116, SEP, 97, DOT, 116, 105, 102 >>

LOG_FILE == << 108, 111, 103, DOT, 116, 120, 116 >>

\* The first bytes of a JPEG file.
JPEG == << 255, 216, 255, 224 >>

\* The parent folders that are verified and backed up: site/file.jpg of
\* 100 bytes or empty; site/raw/img.tif absent, sound, with a header of
\* zeros, unreadable, a dangling link, or failing the decode; plot/a.tif
\* and log.txt present or not.
PrimaryTrees ==
    { TreeOf(a \cup b \cup c \cup d) :
        a \in { {<< SITE_FILE, Holding(100, JPEG) >>}, {<< SITE_FILE, Holding(0, << >>) >>} },
        b \in { {} } \cup
              { {<< SITE_RAW, f >>} :
                  f \in { Holding(100, LITTLE_ENDIAN), Holding(100, << 0, 0, 0, 0 >>),
                          File(TRUE, 100, LITTLE_ENDIAN, << LongMessage >>, << >>),
                          File(FALSE, 0, << >>, << >>, << >>),
                          File(TRUE, 100, LITTLE_ENDIAN, << >>, << ShortMessage >>) } },
        c \in { {}, {<< PLOT_FILE, Holding(100, BIG_ENDIAN) >>} },
        d \in { {}, {<< LOG_FILE, Holding(100, << 0, 0, 0, 0 >>) >>} } }

\* The backup folders before the backup: empty; holding site/file.jpg of
\* 90 bytes; holding that and site/old.jpg; holding a plot/a.tif of 100
\* bytes in the other byte order than the parent folder's.
BackupTrees ==
    { << >>,
      TreeOf({<< SITE_FILE, Holding(90, JPEG) >>}),
      TreeOf({<< SITE_FILE, Holding(90, JPEG) >>, << SITE_OLD, Holding(100, JPEG) >>}),
      TreeOf({<< PLOT_FILE, Holding(100, LITTLE_ENDIAN) >>}) }

\* Step 6 is entered after the transfers.
InitVerify ==
    /\ pipeline = "verify"
    /\ primary \in PrimaryTrees
    /\ backup \in BackupTrees
    /\ PIL_AVAILABLE \in BOOLEAN
    /\ unreadable = {}
    /\ sd = << >>
    /\ set_assignments = << >>
    /\ card = << >>
    /\ InitCommon /\ InitPackVars /\ InitFolderVars /\ InitCheckVars
    /\ InitSessionVars

InitCheck == InitScan \/ InitVerify

NextCheck ==
    \/ BeginScan \/ ScanFolder \/ FinishScan
    \/ BeginVerify \/ VerifySite \/ FinishVerify
    \/ ProceedPrompt \/ BeginBackup \/ BackupSite \/ CompareDirectories

SpecCheck == InitCheck /\ [][NextCheck]_vars

(***************************************************************************)
(* Multi-spectral transfer: finding the SET folders and assigning them     *)
(***************************************************************************)

\* The SET folders of a card in an order os.listdir may give them.
Orders(S) == { o \in [1..Cardinality(S) -> S] : \A a \in S : \E n \in DOMAIN o : o[n] = a }

\* The SET folders of a camera found before the first one that cannot be
\* listed: the try encloses the loop over the entries of the card.
RECURSIVE FoundFrom(_, _, _)
FoundFrom(camera, order, n) ==
    IF n > Len(order) \/ << camera, order[n] >> \in denied THEN {}
    ELSE {order[n]} \cup FoundFrom(camera, order, n + 1)

\* all_set_folders = sorted(set(red keys + blue keys))
all_set_folders ==
    SortSeq(SeqOf(red_set_folders \cup blue_set_folders), LAMBDA a, b : a < b)

\* The function is entered: the cards are scanned for SET folders, and it
\* returns when there is none.
DiscoverSets ==
    /\ pipeline = "multispec"
    /\ pc = "start"
    /\ \E r \in Orders(DOMAIN sd["RED"]), b \in Orders(DOMAIN sd["BLUE"]) :
           /\ red_set_folders' = FoundFrom("RED", r, 1)
           /\ blue_set_folders' = FoundFrom("BLUE", b, 1)
           /\ pc' = IF FoundFrom("RED", r, 1) \cup FoundFrom("BLUE", b, 1) = {}
                    THEN "returned" ELSE "prompt"
    /\ UNCHANGED << pipeline, run, today, unreadable, dest, previous, sd,
                    set_assignments, files_by_plot, plot_id, i,
                    current_folder_num, current_folder_count, summary,
                    total_copied, total_skipped, all_summaries,
                    grand_total_copied, grand_total_skipped, copy_errors, steps,
                    folderVars, checkVars, set_index, command, denied >>

\* A lookup that takes an id the database does not hold for "UNKNOWN".
PlotNamedOrDefault(word) ==
    IF \E p \in SITE_DATABASE : PlotChars(p) = word
    THEN { p \in SITE_DATABASE : PlotChars(p) = word }
    ELSE {"UNKNOWN"}

\* "plot_id in SITE_DATABASE": the plot ids of the database that are spelled
\* as the word typed.
PlotNamed(word) == { p \in SITE_DATABASE : PlotChars(p) = word }

\* A BACK that forgets every assignment.
WithoutAny(assignments, prev_set) == << >>

\* del set_assignments[prev_set], when it is there
WithoutPrevious(assignments, prev_set) ==
    [t \in (DOMAIN assignments) \ {prev_set} |-> assignments[t]]

\* A BACK that leaves the cursor where it is.
SameIndex(index) == index

\* set_index -= 1
PreviousIndex(index) == index - 1

\* "READY TO BEGIN SET FOLDER ASSIGNMENT?" is answered: PROCEED starts the
\* assignment loop with no assignment, BACK returns from the function, any
\* other line is asked again.
ReadyPrompt ==
    /\ pipeline = "multispec"
    /\ pc = "prompt"
    /\ \E line \in Lines :
           /\ command' = Input(line)
           /\ pc' = IF Input(line) = PROCEED THEN "assign"
                    ELSE IF Input(line) = BACK THEN "returned"
                    ELSE "prompt"
           /\ set_assignments' = IF Input(line) = PROCEED THEN << >> ELSE set_assignments
           /\ set_index' = IF Input(line) = PROCEED THEN 0 ELSE set_index
    /\ UNCHANGED << pipeline, run, today, unreadable, dest, previous, sd,
                    files_by_plot, plot_id, i, current_folder_num,
                    current_folder_count, summary, total_copied, total_skipped,
                    all_summaries, grand_total_copied, grand_total_skipped,
                    copy_errors, steps, folderVars, checkVars, red_set_folders,
                    blue_set_folders, denied >>

\* One line read in the assignment loop, at the top of an iteration or after
\* an invalid plot id: BACK takes the loop to the SET before and removes its
\* assignment, a plot id of the database is stored for the SET at the cursor
\* and the cursor moves on, anything else is asked again.
AssignSet ==
    /\ pipeline = "multispec"
    /\ pc \in {"assign", "invalid"}
    /\ \E line \in Lines :
           /\ command' = Input(line)
           /\ IF Input(line) = BACK
              THEN /\ pc' = "assign"
                   /\ IF set_index > 0
                      THEN /\ set_index' = PreviousIndex(set_index)
                           /\ set_assignments' =
                                  WithoutPrevious(set_assignments,
                                                  all_set_folders[set_index])
                      ELSE UNCHANGED << set_index, set_assignments >>
              ELSE IF PlotNamed(Input(line)) # {}
              THEN /\ set_assignments' =
                          (all_set_folders[set_index + 1]
                               :> (CHOOSE p \in PlotNamed(Input(line)) : TRUE))
                          @@ set_assignments
                   /\ set_index' = set_index + 1
                   /\ pc' = IF set_index + 1 < Len(all_set_folders)
                            THEN "assign" ELSE "summary"
              ELSE /\ pc' = "invalid"
                   /\ UNCHANGED << set_index, set_assignments >>
    /\ UNCHANGED << pipeline, run, today, unreadable, dest, previous, sd,
                    files_by_plot, plot_id, i, current_folder_num,
                    current_folder_count, summary, total_copied, total_skipped,
                    all_summaries, grand_total_copied, grand_total_skipped,
                    copy_errors, steps, folderVars, checkVars, red_set_folders,
                    blue_set_folders, denied >>

\* "CONFIRM ASSIGNMENTS AND BEGIN TRANSFER?" is answered: PROCEED goes on to
\* the transfer, BACK enters the function again, any other line is asked
\* again.
ConfirmAssignments ==
    /\ pipeline = "multispec"
    /\ pc = "summary"
    /\ \E line \in Lines :
           /\ command' = Input(line)
           /\ pc' = IF Input(line) = PROCEED THEN "confirmed"
                    ELSE IF Input(line) = BACK THEN "start"
                    ELSE "summary"
    /\ UNCHANGED << pipeline, run, today, unreadable, dest, previous, sd,
                    set_assignments, files_by_plot, plot_id, i,
                    current_folder_num, current_folder_count, summary,
                    total_copied, total_skipped, all_summaries,
                    grand_total_copied, grand_total_skipped, copy_errors, steps,
                    folderVars, checkVars, red_set_folders, blue_set_folders,
                    set_index, denied >>

\* The cards of the dialogue: the RED card holds up to three SET folders,
\* the BLUE card the first of them or none, each SET with one file.
SessionCards ==
    { [c \in {"RED", "BLUE"} |->
          IF c = "RED" THEN [t \in 0..(n - 1) |-> << NameCode(t, 1, 0) >>]
          ELSE [t \in 0..(m - 1) |-> << NameCode(t, 2, 0) >>]] :
        n \in 1..MaxSets, m \in 0..1 }

\* The multi-spectral step is entered with the cards in the readers; a SET
\* folder of the RED card may be one that cannot be listed.
InitAssign ==
    /\ pipeline = "multispec"
    /\ pc = "start"
    /\ run = 1
    /\ today = 1
    /\ dest = << >>
    /\ previous = [set |-> FALSE, today |-> 1, unreadable |-> {}, dest |-> << >>,
                   total_skipped |-> 0, copy_errors |-> 0, steps |-> << >>,
                   folder_summary |-> << >>]
    /\ sd \in SessionCards
    /\ unreadable = {}
    /\ set_assignments = << >>
    /\ card = << >>
    /\ InitPackVars /\ InitFolderVars /\ InitCheckVars /\ NoContents
    /\ red_set_folders = {}
    /\ blue_set_folders = {}
    /\ set_index = 0
    /\ command = << >>
    /\ denied \in { {} } \cup { {<< "RED", t >>} : t \in DOMAIN sd["RED"] }

NextAssign == DiscoverSets \/ ReadyPrompt \/ AssignSet \/ ConfirmAssignments

SpecAssign == InitAssign /\ [][NextAssign]_vars

\* The dialogue with an operator who goes on answering: input() at 1226 and
\* 1244 blocks until a line is typed, so a prompt of the assignment loop that
\* stays open is answered.
SpecAssignFair == SpecAssign /\ WF_vars(AssignSet)

(***************************************************************************)
(* The steps from their prompts                                            *)
(***************************************************************************)

\* A LiDAR or RGB transfer, or the verification followed by the backup, at
\* the prompt that precedes its work: the parent folder as before a first
\* run and no line typed yet.
InitPrompt ==
    /\ \/ /\ pipeline \in {"lidar", "rgb"}
          /\ card \in Cards(RequiredFiles(pipeline))
          /\ unreadable \in SomeOf(FragileFiles(card))
          /\ NoContents
       \/ /\ pipeline = "verify"
          /\ primary \in PrimaryTrees
          /\ backup \in BackupTrees
          /\ PIL_AVAILABLE \in BOOLEAN
          /\ unreadable = {}
          /\ card = << >>
    /\ sd = << >>
    /\ set_assignments = << >>
    /\ pc = "prompt"
    /\ run = 1
    /\ today = 1
    /\ dest = << >>
    /\ previous = [set |-> FALSE, today |-> 1, unreadable |-> {}, dest |-> << >>,
                   total_skipped |-> 0, copy_errors |-> 0, steps |-> << >>,
                   folder_summary |-> << >>]
    /\ InitPackVars /\ InitFolderVars /\ InitCheckVars
    /\ red_set_folders = {}
    /\ blue_set_folders = {}
    /\ set_index = 0
    /\ command = << >>
    /\ denied = {}

NextPrompt ==
    \/ ProceedPrompt
    \/ BeginFolders \/ ProcessFolder \/ FinishFolders
    \/ BeginVerify \/ VerifySite \/ FinishVerify
    \/ BeginBackup \/ BackupSite \/ CompareDirectories

SpecPrompt == InitPrompt /\ [][NextPrompt]_vars

(***************************************************************************)
(* The stages of the multi-spectral transfer and of the backup in a row    *)
(***************************************************************************)

\* The path, below the parent folder, of the file named n of output
\* folder d = << plot, day, number >>.
OutputPath(d, n) ==
    Join(Join(Join(Join(PlotChars(d[1]), StrOf(d[2])), MULTISPEC_LEVEL0),
              FolderName(d[3])),
         FileName(n))

\* The files the packer has left in the parent folder, each holding f: the
\* transfer keeps their names, the check reads what they hold.
CopiedTree(f) ==
    [p \in UNION { { OutputPath(d, n) : n \in dest[d] } : d \in DOMAIN dest }
        |-> f]

\* Between the packer and the corruption check the combined summary of the
\* plots is printed; the files copied are sound TIFF files or empty.
CombinedSummary ==
    /\ pipeline = "multispec"
    /\ pc = "done"
    /\ \E f \in { Holding(100, LITTLE_ENDIAN), Holding(0, << >>) } :
           primary' = CopiedTree(f)
    /\ pc' = "packed"
    /\ UNCHANGED << pipeline, transferVars, backup, PIL_AVAILABLE, queue,
                    scanVars, verifyVars, backupVars, diffVars >>

\* The multi-spectral step from its entry, or step 6 from its entry.
InitStages == InitAssign \/ InitVerify

NextStages ==
    \/ DiscoverSets \/ ReadyPrompt \/ AssignSet \/ ConfirmAssignments
    \/ BeginTransfer \/ PackStep \/ FinishPack \/ CombinedSummary
    \/ BeginScan \/ ScanFolder \/ FinishScan
    \/ BeginVerify \/ VerifySite \/ FinishVerify
    \/ ProceedPrompt \/ BeginBackup \/ BackupSite \/ CompareDirectories

SpecStages == InitStages /\ [][NextStages]_vars

(***************************************************************************)
(* The folder transfers when a copy is interrupted                         *)
(***************************************************************************)

\* A LiDAR or RGB transfer confirmed, of a card every file of which can be
\* read.
InitInterrupt == InitFolder /\ unreadable = {}

NextInterrupt ==
    BeginFolders \/ ProcessFolder \/ InterruptFolder \/ FinishFolders \/ Restart

SpecInterrupt == InitInterrupt /\ [][NextInterrupt]_vars

(***************************************************************************)
(* The folder transfers when a directory cannot be created                 *)
(***************************************************************************)

\* The plots the folders of the card are copied to.
CardPlots(folders) == { PlotIdOf(folders[n].name) : n \in DOMAIN folders }

\* A LiDAR or RGB transfer confirmed, with at most one plot of the parent
\* folder under which os.makedirs raises.
InitFail ==
    /\ pipeline \in {"lidar", "rgb"}
    /\ card \in Cards(RequiredFiles(pipeline))
    /\ unreadable \in SomeOf(FragileFiles(card))
    /\ sd = << >>
    /\ set_assignments = << >>
    /\ InitCommon /\ InitPackVars /\ InitFolderVars
    /\ InitCheckVars /\ NoContents
    /\ red_set_folders = {}
    /\ blue_set_folders = {}
    /\ set_index = 0
    /\ command = PROCEED
    /\ denied \in { {} } \cup { {<< "parent", p >>} : p \in CardPlots(card) }

NextFail == BeginFolders \/ ProcessFolder \/ FinishFolders

SpecFail == InitFail /\ [][NextFail]_vars

(***************************************************************************)
(* Properties of the packer                                                *)
(***************************************************************************)

\* The packer is at work or has finished.
Packing == pipeline = "multispec" /\ pc \in {"pack", "done"}

\* The step the packer took last.
LastStep == steps[Len(steps)]

\* The characters of the entry at position p (from 1) of the packer's list.
EntryName(p) == FileName(all_tif_files[p].name)

\* The base name of a file name: the name less its extension and less a
\* trailing _<suffix>.
RunBase(filename) ==
    LET dot == LastIndexOf(filename, DOT)
        stem == IF dot > 0 THEN SubSeq(filename, 1, dot - 1) ELSE filename
        us == LastIndexOf(stem, UNDERSCORE)
    IN  IF us > 0 THEN SubSeq(stem, 1, us - 1) ELSE stem

\* The name ends in _<digits> before its extension.
HasNumberedSuffix(filename) ==
    LET dot == LastIndexOf(filename, DOT)
        stem == IF dot > 0 THEN SubSeq(filename, 1, dot - 1) ELSE filename
        us == LastIndexOf(stem, UNDERSCORE)
    IN  us > 0 /\ us < Len(stem)
        /\ \A n \in (us + 1)..Len(stem) : IsDigitChar(stem[n])

\* The first and the last position of the maximal run that holds position p.
RECURSIVE RunFirst(_)
RunFirst(p) ==
    IF p > 1 /\ RunBase(EntryName(p - 1)) = RunBase(EntryName(p))
    THEN RunFirst(p - 1) ELSE p

RECURSIVE RunLast(_)
RunLast(p) ==
    IF p < Len(all_tif_files) /\ RunBase(EntryName(p + 1)) = RunBase(EntryName(p))
    THEN RunLast(p + 1) ELSE p

\* The bin of position p, for p in the last step or the entry before it.
BinNear(p) ==
    IF p > LastStep.at \/ Len(steps) = 1 THEN LastStep.num
    ELSE steps[Len(steps) - 1].num

\* The positions of the entries placed by the last step.
LastPlaced ==
    (LastStep.at + 1)..Min(LastStep.at + LastStep.series_count,
                           Len(all_tif_files))

\* Positions q - 1 and q are in one maximal run.
Joined(q) == q > 1 /\ RunBase(EntryName(q - 1)) = RunBase(EntryName(q))

\* The maximal run that holds position q has at most eleven entries and its
\* first entry ends in _<digits>.
ShortNumberedRun(q) ==
    /\ RunLast(q) - RunFirst(q) + 1 <= SERIES_LOOKAHEAD
    /\ HasNumberedSuffix(EntryName(RunFirst(q)))

\* C1 as stated: no two neighbouring entries of one maximal run of entries
\* with the same base name are placed in different bins, however long the
\* run is; so no run is ever split.
C1_NoRunSplit ==
    (Packing /\ Len(steps) > 0) =>
        \A q \in LastPlaced : BinNear(q - 1) = BinNear(q) \/ ~ Joined(q)

\* C1, amended: a maximal run of at most eleven entries whose first entry
\* ends in _<digits> is never split: any two neighbouring entries of such
\* a run are placed in the same bin.
C1_ShortNumberedRunNotSplit ==
    (Packing /\ Len(steps) > 0) =>
        \A q \in LastPlaced :
            \/ BinNear(q - 1) = BinNear(q)
            \/ ~ Joined(q)
            \/ ~ ShortNumberedRun(q)

\* C1 witness: a run of eleven numbered entries met a bin too full to take
\* it and went whole into the next bin.
C1_Witness ==
    /\ Packing /\ Len(steps) > 1
    /\ LastStep.series_count = SERIES_LOOKAHEAD
    /\ LastStep.count > 0
    /\ LastStep.count + LastStep.series_count > MAX_FILES_PER_FOLDER
    /\ LastStep.num = steps[Len(steps) - 1].num + 1
    /\ RunLast(LastStep.at + 1) - RunFirst(LastStep.at + 1) + 1 = SERIES_LOOKAHEAD

\* The bins of plot p on the day of the run.
BinsOf(p) == { d \in DOMAIN dest : d[1] = p /\ d[2] = today }

\* Every readable file collected for plot p is in one of p's bins.
PlotCopied(p) ==
    \A n \in 1..Len(files_by_plot[p]) :
        \/ files_by_plot[p][n] \in unreadable
        \/ \E d \in BinsOf(p) : files_by_plot[p][n].name \in dest[d]

\* C2 as stated: once the transfer has finished, every plot that received
\* files has them in its own bins, has a bin 000, and is in the combined
\* summary.
C2_EveryPlotPacked ==
    (pipeline = "multispec" /\ pc = "done") =>
        \A p \in DOMAIN files_by_plot :
            Len(files_by_plot[p]) > 0 =>
                /\ p \in DOMAIN all_summaries
                /\ << p, today, 0 >> \in DOMAIN dest
                /\ PlotCopied(p)

\* The sum of the file counts of the bins in folders.
RECURSIVE SumFiles(_)
SumFiles(folders) ==
    IF Len(folders) = 0 THEN 0
    ELSE folders[1].Files + SumFiles(Tail(folders))

\* C3 as stated: the file counts of the emitted bins add up to the length
\* of the packed list.
C3_CountsSumToLength ==
    (pipeline = "multispec" /\ pc = "done") =>
        SumFiles(summary) = Len(all_tif_files)

\* C3, amended: the file counts of the emitted bins add up to the length of
\* the packed list less the number of files whose copy failed.
C3_CountsSumToLengthLessFailures ==
    (pipeline = "multispec" /\ pc = "done") =>
        SumFiles(summary) = Len(all_tif_files) - copy_errors

\* C3 witness: a finished run over two bins in which one copy failed.
C3_Witness ==
    /\ pipeline = "multispec" /\ pc = "done"
    /\ copy_errors = 1
    /\ Len(summary) = 2
    /\ SumFiles(summary) = Len(all_tif_files) - 1

\* The bin in use before the last step.
BinBefore == IF Len(steps) = 1 THEN 0 ELSE steps[Len(steps) - 1].num

\* C4: at each step the current bin is closed and the next one opened
\* exactly when it holds files and the series would take it past the cap;
\* the closed bin is emitted, and the whole series goes to the bin in use
\* after the decision.
C4_RolloverRule ==
    (Packing /\ Len(steps) > 0) =>
        /\ LastStep.num \in {BinBefore, BinBefore + 1}
        /\ LastStep.num = BinBefore + 1
               <=> (/\ LastStep.count > 0
                    /\ LastStep.count + LastStep.series_count
                           > MAX_FILES_PER_FOLDER)
        /\ current_folder_num = LastStep.num
        /\ pc = "pack" => Len(summary) = LastStep.num
        /\ \A q \in LastPlaced :
               \/ all_tif_files[q] \in unreadable
               \/ all_tif_files[q].name
                      \in FilesIn(dest, << plot_id, today, LastStep.num >>)

\* C4 witness: a series of eleven files arrived at a bin five short of the
\* cap and went whole into the next bin.
C4_Witness ==
    /\ Packing /\ Len(steps) > 0
    /\ LastStep.count = MAX_FILES_PER_FOLDER - 5
    /\ LastStep.series_count = SERIES_LOOKAHEAD
    /\ LastStep.num = BinBefore + 1
    /\ current_folder_count = SERIES_LOOKAHEAD
    /\ Cardinality(FilesIn(dest, << plot_id, today, LastStep.num >>))
           = SERIES_LOOKAHEAD

ThreeDigits(n) ==
    << ZERO + (n \div 100), ZERO + ((n \div 10) % 10), ZERO + (n % 10) >>

\* C6: the emitted bins carry the indices 0, 1, 2, ... in emission order,
\* each as a three-digit folder name, and none has a file count of 0.
C6_BinIndicesInOrder ==
    Packing =>
        \A k \in 1..Len(summary) :
            /\ summary[k].Folder = ThreeDigits(k - 1)
            /\ summary[k].Files > 0

\* C6 witness: a finished run that emitted bins 000 and 001.
C6_Witness ==
    /\ pipeline = "multispec" /\ pc = "done"
    /\ Len(summary) = 2
    /\ summary[1].Folder = << ZERO, ZERO, ZERO >>
    /\ summary[2].Folder = << ZERO, ZERO, ZERO + 1 >>
    /\ summary[2].Files > 0

\* The positions of the series placed by step t.
PlacedBy(t) ==
    (steps[t].at + 1)..Min(steps[t].at + steps[t].series_count,
                           Len(all_tif_files))

\* A copy of an entry of step t failed in this run: the entry is unreadable
\* and its name is not in the bin of the step.
FailedIn(t) ==
    { q \in PlacedBy(t) :
          /\ all_tif_files[q] \in unreadable
          /\ all_tif_files[q].name
                 \notin FilesIn(dest, << plot_id, today, steps[t].num >>) }

\* Every readable entry of step t is in the bin of the step.
SeriesCopied(t) ==
    \A q \in PlacedBy(t) :
        \/ all_tif_files[q] \in unreadable
        \/ all_tif_files[q].name
               \in FilesIn(dest, << plot_id, today, steps[t].num >>)

\* Every file the run before left in the parent folder is still there.
NothingRemoved ==
    \A d \in DOMAIN previous.dest :
        d \in DOMAIN dest /\ previous.dest[d] \subseteq dest[d]

\* C9: when the copy of a member of a series has failed, the run still
\* reaches the end of the list, the other members of that series are in
\* the bin of the series, the series after it is copied as well, the
\* failure is counted once per file, and nothing copied before is removed.
C9_CopyFailureSkipsOneFile ==
    (pipeline = "multispec" /\ pc = "done") =>
        /\ i = Len(all_tif_files)
        /\ NothingRemoved
        /\ \A t \in 1..Len(steps) :
               FailedIn(t) # {} =>
                   /\ SeriesCopied(t)
                   /\ t < Len(steps) => SeriesCopied(t + 1)
                   /\ copy_errors >= Cardinality(FailedIn(t))

\* C9 witness: a finished run in which the first member of a series of
\* eleven failed, the other ten are in its bin, and a later series was
\* copied.
C9_Witness ==
    /\ pipeline = "multispec" /\ pc = "done"
    /\ copy_errors = 1
    /\ \E t \in 1..Len(steps) :
           /\ steps[t].series_count = SERIES_LOOKAHEAD
           /\ Cardinality(FailedIn(t)) = 1
           /\ t < Len(steps)
           /\ Cardinality(FilesIn(dest, << plot_id, today, steps[t + 1].num >>)
                              \cap { all_tif_files[q].name : q \in PlacedBy(t + 1) }) > 0
           /\ Cardinality({ q \in PlacedBy(t) :
                                all_tif_files[q].name
                                    \in FilesIn(dest, << plot_id, today, steps[t].num >>) })
                  = SERIES_LOOKAHEAD - 1

\* The packer is at work or has finished in a run after the first, so that
\* the bins of the run before are in the parent folder.
Repacking == Packing /\ previous.set /\ Len(steps) > 0

\* The last step placed the same entries in the same bin as the step of the
\* run before did.
SameBinAsBefore ==
    /\ Len(steps) <= Len(previous.steps)
    /\ LastStep.at = previous.steps[Len(steps)].at
    /\ LastStep.series_count = previous.steps[Len(steps)].series_count
    /\ LastStep.num = previous.steps[Len(steps)].num

RowsWith(rows, status) ==
    Cardinality({ n \in 1..Len(rows) : rows[n].Status = status })

\* The run in progress is a rerun of the same card on the given terms.
Rerun == previous.set /\ unreadable = previous.unreadable

\* What C7 promises of a rerun: the parent folder is as the run before left
\* it, nothing is copied, no error is reported, and at the end at least as
\* much was skipped as in the run before.
RerunChangesNothing ==
    /\ dest = previous.dest
    /\ Packing =>
           /\ total_copied = 0
           /\ copy_errors = 0
           /\ pc = "done" => total_skipped >= previous.total_skipped
    /\ (pipeline # "multispec" /\ pc \in {"walk", "done"}) =>
           /\ RowsWith(folder_summary, "Copied") = 0
           /\ RowsWith(folder_summary, "Error") = 0
           /\ pc = "done" =>
                  RowsWith(folder_summary, "Already exists")
                      >= RowsWith(previous.folder_summary, "Already exists")

PreviousRunClean ==
    /\ previous.copy_errors = 0
    /\ RowsWith(previous.folder_summary, "Error") = 0

TypeOf(filename) ==
    Upper(SubSeq(filename, LastIndexOf(filename, DOT) + 1, Len(filename)))

\* The distinct types of the files of a listing whose names hold a dot.
TypesIn(files) ==
    { TypeOf(files[n]) : n \in { m \in 1..Len(files) : DOT \in Range(files[m]) } }

\* The folder of the card a summary row is about.
FolderOf(row) == card[CHOOSE n \in 1..Len(card) : card[n].name = row.Folder]

\* The required types of the running transfer, as a set.
RequiredSet == Range(RequiredFiles(pipeline))

\* C10: a folder is classified as complete exactly when every required
\* type is among the types of its files, whatever other files it holds,
\* and the types reported missing are the required ones that are not
\* among them.
C10_ClassificationBySubset ==
    (pipeline # "multispec" /\ pc \in {"walk", "done"}) =>
        \A n \in 1..Len(folder_summary) :
            /\ Len(folder_summary[n].Missing) = 0
                   <=> RequiredSet \subseteq TypesIn(FolderOf(folder_summary[n]).files)
            /\ folder_summary[n].Status # "Missing"
                   <=> RequiredSet \subseteq TypesIn(FolderOf(folder_summary[n]).files)
            /\ Range(folder_summary[n].Missing)
                   = RequiredSet \ TypesIn(FolderOf(folder_summary[n]).files)

\* C10 witness: a folder whose files carry the required types in lower
\* case after a second dot, beside files of other types, was classified as
\* complete.
C10_Witness ==
    /\ pipeline = "lidar" /\ pc = "done"
    /\ \E n \in 1..Len(folder_summary) :
           /\ folder_summary[n].Status = "Copied"
           /\ Len(FolderOf(folder_summary[n]).files) > Len(LIDAR_REQUIRED_FILES)
           /\ \E m \in 1..Len(FolderOf(folder_summary[n]).files) :
                  FolderOf(folder_summary[n]).files[m]
                      = << 102, DOT, 118, 50, DOT, 109, 114, 107 >>

(***************************************************************************)
(* Properties of the folder transfers                                      *)
(***************************************************************************)

\* A folder transfer is walking the card or has finished.
FolderRun == pipeline \in {"lidar", "rgb"} /\ pc \in {"walk", "done"}

\* The folders of the card the walk has gone through and processed, in the
\* order of the walk.
ProcessedFolders ==
    SelectSeq(SubSeq(card, 1, walk - 1), LAMBDA f : Walked(pipeline, f))

\* The folder lacks a required type.
FailsClassification(folder) == ~ (RequiredSet \subseteq TypesIn(folder.files))

\* There is a directory for the folder of that name in the parent folder.
HasDestination(name) == \E d \in DOMAIN dest : d[3] = name

DashBefore(name, n) == LastIndexFrom(name, DASH, n - 1)

\* The second-to-last of the '-'-separated tokens of a name, UNKNOWN for a
\* name without '-'.
TokenBeforeLast(name) ==
    IF DASH \notin Range(name) THEN UNKNOWN
    ELSE SubSeq(name, DashBefore(name, DashBefore(name, Len(name) + 1)) + 1,
                DashBefore(name, Len(name) + 1) - 1)

\* C12: a folder with every required type has the second-to-last token of
\* its name as plot id, UNKNOWN when the name has a single token, and it
\* is transferred to a directory under that plot id.
C12_PlotIdIsTokenBeforeLast ==
    FolderRun =>
        \A n \in 1..Len(folder_summary) :
            folder_summary[n].Status # "Missing" =>
                /\ folder_summary[n].PlotID = TokenBeforeLast(folder_summary[n].Folder)
                /\ << folder_summary[n].PlotID, today, folder_summary[n].Folder >>
                       \in DOMAIN dest

\* C12 witness: the L2 folder "P1", with every required type, was copied
\* to a directory under the plot id UNKNOWN.
C12_Witness ==
    /\ pipeline = "lidar" /\ pc = "done"
    /\ \E n \in 1..Len(folder_summary) :
           /\ folder_summary[n].Folder = << 80, 49 >>
           /\ folder_summary[n].Status = "Copied"
           /\ folder_summary[n].PlotID = UNKNOWN
           /\ FilesIn(dest, << UNKNOWN, today, << 80, 49 >> >>) # {}

(***************************************************************************)
(* Properties of the comparison of the parent and the backup folder        *)
(***************************************************************************)

\* compare_directories has returned and the two folders are as it saw them.
Diffed == pipeline = "verify" /\ (pc = "compared" \/ base_dir_name = "backup")

\* The relativePath -> size maps of the two folders.
MapA == get_file_list(primary)

MapB == get_file_list(backup)

\* The paths on which the two maps disagree.
Disagreements ==
    { p \in (DOMAIN MapA) \cup (DOMAIN MapB) :
          \/ p \notin DOMAIN MapA
          \/ p \notin DOMAIN MapB
          \/ MapA[p] # MapB[p] }

\* C13: the diff of the maps A and B gives the paths of A that are not in
\* B, the paths of B that are not in A, and the common paths with
\* different sizes; the three sets are pairwise disjoint and together are
\* the paths on which A and B disagree.
C13_DiffSets ==
    Diffed =>
        /\ only_in_1 = { p \in DOMAIN MapA : p \notin DOMAIN MapB }
        /\ only_in_2 = { p \in DOMAIN MapB : p \notin DOMAIN MapA }
        /\ size_diff = { p \in DOMAIN MapA : p \in DOMAIN MapB /\ MapA[p] # MapB[p] }
        /\ only_in_1 \cap only_in_2 = {}
        /\ only_in_1 \cap size_diff = {}
        /\ only_in_2 \cap size_diff = {}
        /\ only_in_1 \cup only_in_2 \cup size_diff = Disagreements

\* C13 witness: a comparison in which each of the three sets has a path,
\* the common file being smaller in the parent folder.
C13_Witness ==
    /\ Diffed /\ pc = "compared"
    /\ only_in_1 # {} /\ only_in_2 # {} /\ size_diff # {}
    /\ \E p \in size_diff : MapA[p] < MapB[p]

\* C14: the folders are reported identical exactly when the three sets
\* are empty, which is when the two maps have the same paths with the same
\* sizes, whatever the files hold; two equal maps give no affected folder.
C14_IdenticalIffNoDifference ==
    Diffed =>
        /\ is_identical <=> (only_in_1 = {} /\ only_in_2 = {} /\ size_diff = {})
        /\ is_identical <=> (MapA = MapB)
        /\ (MapA = MapB) => (affected_folders = {} /\ folder_issues = << >>)

\* C14 witness: two folders reported identical although a file of the
\* same path and size holds other bytes in the backup.
C14_Witness ==
    /\ Diffed /\ is_identical /\ affected_folders = {}
    /\ DOMAIN MapA # {}
    /\ \E p \in DOMAIN MapA : primary[p].header # backup[p].header

\* The first segment of a path: the characters before its first '/'.
FirstSegment(p) ==
    IF \E n \in 1..Len(p) : p[n] = SEP
    THEN SubSeq(p, 1, (CHOOSE n \in 1..Len(p) :
                           p[n] = SEP /\ \A m \in 1..(n - 1) : p[m] # SEP) - 1)
    ELSE p

\* The folders that carry an issue: the first segments of the paths of its
\* set.
Carrying(paths) == { FirstSegment(p) : p \in paths }

\* "site"
SITE == << 115, 105, 116, 101 >>

\* C15: the affected folders are the pairs of a first path segment of a
\* path of one of the three sets and the issue of that set; the report
\* gives each folder the issues it carries; and site/file.jpg of 100 bytes
\* against 90 bytes gives the folder site the issue "Size mismatch" alone.
C15_AffectedFoldersByFirstSegment ==
    Diffed =>
        /\ \A t \in Carrying(DOMAIN MapA \cup DOMAIN MapB) :
               /\ << t, "Missing in backup" >> \in affected_folders
                      <=> t \in Carrying(only_in_1)
               /\ << t, "Extra in backup" >> \in affected_folders
                      <=> t \in Carrying(only_in_2)
               /\ << t, "Size mismatch" >> \in affected_folders
                      <=> t \in Carrying(size_diff)
        /\ \A a \in affected_folders :
               /\ a[1] \in Carrying(DOMAIN MapA \cup DOMAIN MapB)
               /\ a[2] \in {"Missing in backup", "Extra in backup", "Size mismatch"}
               /\ a[1] \in DOMAIN folder_issues /\ a[2] \in folder_issues[a[1]]
        /\ \A t \in DOMAIN folder_issues :
               \A issue \in folder_issues[t] : << t, issue >> \in affected_folders
        /\ (MapA = (SITE_FILE :> 100) /\ MapB = (SITE_FILE :> 90)) =>
               /\ size_diff = {SITE_FILE}
               /\ folder_issues = (SITE :> {"Size mismatch"})

\* C15 witness: the folder site carries two issues, one of them for a file
\* two directories down.
C15_Witness ==
    /\ Diffed /\ pc = "compared"
    /\ SITE_RAW \in only_in_1
    /\ SITE \in DOMAIN folder_issues
    /\ {"Missing in backup", "Size mismatch"} \subseteq folder_issues[SITE]

(***************************************************************************)
(* Properties of the corruption checks                                     *)
(***************************************************************************)

\* The TIFF corruption check of the plots in all_summaries has ended.
ScanDone == pipeline = "multispec" /\ pc = "scanned"

\* The folder a path names, and the name of the file in it.
Folder(p) == SubSeq(p, 1, LastIndexOf(p, SEP) - 1)

Basename(p) == SubSeq(p, LastIndexOf(p, SEP) + 1, Len(p))

\* The TIFF files present in the output folders of the plots in
\* all_summaries: two levels below target_base there is nothing to find.
TiffsPresent ==
    { p \in DOMAIN primary :
        /\ \E plot \in DOMAIN all_summaries :
               /\ Under(p, TargetBase(plot))
               /\ Under(Folder(p), TargetBase(plot))
               /\ ~ Contains(RelPath(Folder(p), TargetBase(plot)), SEP)
        /\ \/ EndsWith(Upper(Basename(p)), << DOT, 84, 73, 70 >>)
           \/ EndsWith(Upper(Basename(p)), << DOT, 84, 73, 70, 70 >>) }

\* The places in the report that name the file at path p.
VerdictsOf(p) ==
    { n \in 1..Len(corrupted_files) :
        Join(Join(TargetBase(corrupted_files[n].plot), corrupted_files[n].folder),
             corrupted_files[n].file) = p }

\* The file at p has exactly one verdict, with that fixed reason.
OnlyVerdict(p, label) ==
    /\ Cardinality(VerdictsOf(p)) = 1
    /\ \A n \in VerdictsOf(p) :
           corrupted_files[n].reason = [label |-> label, text |-> << >>]

\* The four bytes are one of 49 49 2A 00 and 4D 4D 00 2A.
MagicNumber(header) == header \in { << 73, 73, 42, 0 >>, << 77, 77, 0, 42 >> }

\* The file can be opened and read.
Readable(f) == f.exists /\ f.open_raises = << >>

\* C16: at the end of the TIFF check every TIFF file of the output folders
\* has at most one verdict; an absent file has "File not found", an empty
\* one "Zero size", a readable one of 1 to 3 bytes "Invalid header (too
\* short)", a readable one whose first four bytes are no magic number
\* "Invalid TIFF header", each whatever the later layers would say, and a
\* readable file with a magic number that the decode accepts, or that is not
\* decoded, has no verdict.
C16_LayersInOrder ==
    ScanDone =>
        \A p \in TiffsPresent :
            /\ Cardinality(VerdictsOf(p)) <= 1
            /\ ~ primary[p].exists => OnlyVerdict(p, "File not found")
            /\ primary[p].exists /\ primary[p].size = 0
                   => OnlyVerdict(p, "Zero size")
            /\ Readable(primary[p]) /\ primary[p].size \in 1..3
                   => OnlyVerdict(p, "Invalid header (too short)")
            /\ Readable(primary[p]) /\ primary[p].size >= 4
                  /\ ~ MagicNumber(SubSeq(primary[p].header, 1, 4))
                   => OnlyVerdict(p, "Invalid TIFF header")
            /\ Readable(primary[p]) /\ primary[p].size >= 4
                  /\ MagicNumber(SubSeq(primary[p].header, 1, 4))
                  /\ (PIL_AVAILABLE => primary[p].verify_raises = << >>)
                   => VerdictsOf(p) = {}

\* A check has ended in which a file of zeros has "Invalid TIFF header", a
\* file of three bytes "Invalid header (too short)" and a sound file in the
\* next folder no verdict.
C16_Witness ==
    /\ ScanDone
    /\ \E p, q, r \in TiffsPresent :
           /\ primary[p] = Holding(100, << 0, 0, 0, 0 >>)
           /\ OnlyVerdict(p, "Invalid TIFF header")
           /\ primary[q] = Holding(3, << 73, 73, 42 >>)
           /\ OnlyVerdict(q, "Invalid header (too short)")
           /\ Folder(r) # Folder(p)
           /\ primary[r] = Holding(100, BIG_ENDIAN)
           /\ VerdictsOf(r) = {}

\* The characters of a recorded reason: its fixed text, then the cut message.
ReasonString(reason) ==
    (CASE reason.label = "PIL verification failed: " ->
              << 80, 73, 76, 32, 118, 101, 114, 105, 102, 105, 99, 97, 116, 105,
                 111, 110, 32, 102, 97, 105, 108, 101, 100, 58, 32 >>
       [] reason.label = "Read error: " ->
              << 82, 101, 97, 100, 32, 101, 114, 114, 111, 114, 58, 32 >>
       [] OTHER -> << >>)
    \o reason.text

\* "PIL verification failed: "
PIL_FAILED == SubSeq(ReasonString([label |-> "PIL verification failed: ", text |-> << >>]), 1, 25)

\* The first 30 characters of a message.
First30(message) == [n \in 1..(IF Len(message) < 30 THEN Len(message) ELSE 30) |-> message[n]]

\* The file passes the layers before the decode.
PassesFirstLayers(f) ==
    Readable(f) /\ f.size >= 4 /\ MagicNumber(SubSeq(f.header, 1, 4))

\* The TIFF files of the check that pass the first layers and that the
\* decode, where there is one, raises an exception on.
FailDecode == { p \in TiffsPresent :
                  PassesFirstLayers(primary[p]) /\ primary[p].verify_raises # << >> }

\* C17 as stated: the reason recorded for a file the decode fails on is the
\* first 30 characters of the exception message.
C17_ReasonIsCutMessage ==
    ScanDone /\ PIL_AVAILABLE =>
        \A p \in FailDecode :
            \A n \in VerdictsOf(p) :
                ReasonString(corrupted_files[n].reason)
                    = First30(primary[p].verify_raises[1])

\* C17: a file that passes the first three layers and fails the decode has
\* one verdict whose reason is "PIL verification failed: " followed by the
\* first 30 characters of the exception message; without the decode
\* capability every file that passes the first three layers has no verdict.
C17_ReasonIsLabelAndCutMessage ==
    ScanDone =>
        /\ PIL_AVAILABLE =>
               \A p \in FailDecode :
                   /\ Cardinality(VerdictsOf(p)) = 1
                   /\ \A n \in VerdictsOf(p) :
                          ReasonString(corrupted_files[n].reason)
                              = PIL_FAILED \o First30(primary[p].verify_raises[1])
        /\ ~ PIL_AVAILABLE =>
               \A p \in TiffsPresent :
                   PassesFirstLayers(primary[p]) => VerdictsOf(p) = {}

\* A check with the decode has ended in which a message of 46 characters is
\* recorded by its first 30, after the fixed text.
C17_Witness ==
    /\ ScanDone /\ PIL_AVAILABLE
    /\ \E p \in FailDecode :
           /\ Len(primary[p].verify_raises[1]) = 46
           /\ \E n \in VerdictsOf(p) :
                  Len(ReasonString(corrupted_files[n].reason)) = 25 + 30

\* A check without the decode has ended in which a file the decode would
\* fail on has no verdict.
C17_WitnessSkipped ==
    /\ ScanDone /\ ~ PIL_AVAILABLE
    /\ \E p \in FailDecode : VerdictsOf(p) = {}

\* A site has just been verified: the site, and the relative paths
\* verify_data_integrity holds as corrupt for it.
SiteVerified == pc = "verify" /\ site_reports # << >>

LastSite == site_reports[Len(site_reports)].Site

Flagged == { corrupt_files[n] : n \in 1..Len(corrupt_files) }

\* C18: after a site is verified, a file below it is held as corrupt
\* exactly when it is absent, is empty, or raises when it is read; a
\* present, non-empty, readable file is not held as corrupt even when its
\* first four bytes are no TIFF magic number.
C18_GenericCheckIgnoresHeader ==
    SiteVerified =>
        \A p \in DOMAIN BaseTree :
            Under(p, LastSite) =>
                /\ RelPath(p, LastSite) \in Flagged
                       <=> \/ ~ BaseTree[p].exists
                           \/ BaseTree[p].size = 0
                           \/ BaseTree[p].open_raises # << >>
                /\ Readable(BaseTree[p]) /\ BaseTree[p].size > 0
                      /\ ~ MagicNumber(SubSeq(BaseTree[p].header, 1, 4))
                       => RelPath(p, LastSite) \notin Flagged

\* A site has been verified in which an empty file is held as corrupt and
\* a .tif file of 100 bytes that starts with zeros is not.
C18_Witness ==
    /\ SiteVerified
    /\ Under(SITE_RAW, LastSite) /\ SITE_RAW \in DOMAIN BaseTree
    /\ BaseTree[SITE_RAW] = Holding(100, << 0, 0, 0, 0 >>)
    /\ RelPath(SITE_RAW, LastSite) \notin Flagged
    /\ BaseTree[SITE_FILE].size = 0
    /\ RelPath(SITE_FILE, LastSite) \in Flagged

\* The generic verification of the folder has checked its last site.
VerifyDone == pipeline = "verify" /\ pc = "verify" /\ queue = << >>

\* Some layer of the TIFF check fails for the file.
FailsSomeLayer(f) ==
    \/ ~ f.exists
    \/ f.size < 4
    \/ f.open_raises # << >>
    \/ ~ MagicNumber(SubSeq(f.header, 1, 4))
    \/ PIL_AVAILABLE /\ f.verify_raises # << >>

\* The files below the directories of the folder being verified.
FilesInSites == { p \in DOMAIN BaseTree : Contains(p, SEP) }

\* C19: the TIFF check ends with as many files checked as there are TIFF
\* files in the output folders, one verdict for each of them that fails a
\* layer or raises and none for the others, so never more verdicts than
\* files checked; the generic verification ends with as many files counted
\* as lie below the site directories, every failing one of them counted as
\* corrupt, and one report for every site.
C19_ScanGoesOn ==
    /\ pipeline = "multispec" /\ pc \in {"scan", "scanned"}
           => Len(corrupted_files) <= total_files_checked
    /\ ScanDone =>
           /\ total_files_checked = Cardinality(TiffsPresent)
           /\ \A n \in 1..Len(corrupted_files) :
                  Join(Join(TargetBase(corrupted_files[n].plot),
                            corrupted_files[n].folder),
                       corrupted_files[n].file) \in TiffsPresent
           /\ \A p \in TiffsPresent :
                  Cardinality(VerdictsOf(p)) = IF FailsSomeLayer(primary[p]) THEN 1 ELSE 0
    /\ VerifyDone =>
           /\ total_files = Cardinality(FilesInSites)
           /\ total_corrupt =
                  Cardinality({ p \in FilesInSites :
                                  \/ ~ Readable(BaseTree[p])
                                  \/ BaseTree[p].size = 0 })
           /\ total_corrupt <= total_files
           /\ total_sites = Cardinality({ Split(p, SEP)[1] : p \in FilesInSites })
           /\ Len(site_reports) = total_sites

\* A TIFF check has ended that counted three files: the first of folder
\* 000 raised when it was opened, the second was sound and the one of
\* folder 001 was empty.
C19_Witness ==
    /\ ScanDone
    /\ total_files_checked = 3
    /\ Len(corrupted_files) = 2
    /\ corrupted_files[1].folder = FolderName(0)
    /\ corrupted_files[1].file = FileName(NameCode(0, 1, 0))
    /\ corrupted_files[1].reason.label = "Read error: "
    /\ corrupted_files[2].folder = FolderName(1)
    /\ corrupted_files[2].reason.label = "Zero size"

\* A step of a corruption check or of the comparison of the two folders is
\* about to be taken: the TIFF check after the packer, the verification of
\* the parent or the backup folder, or compare_directories after the copy
\* loop of the backup.
ReadOnlyStage ==
    \/ pipeline = "multispec" /\ pc \in {"packed", "scan"}
    \/ pipeline = "verify" /\ pc \in {"confirmed", "verify", "compared"}
    \/ pipeline = "verify" /\ pc = "backup" /\ queue = << >>

\* C20: no step of the TIFF check, of the generic verification or of the
\* comparison changes the files of the parent folder or of the backup
\* folder: the paths, their sizes and their contents stay as they were.
C20_ChecksLeaveFilesAlone ==
    [][ReadOnlyStage => primary' = primary /\ backup' = backup]_vars

\* A TIFF check has ended with verdicts, and every file it found corrupt is
\* still where it was.
C20_Witness ==
    /\ ScanDone
    /\ Len(corrupted_files) >= 2
    /\ \A n \in 1..Len(corrupted_files) :
           /\ Join(Join(TargetBase(corrupted_files[n].plot), corrupted_files[n].folder),
                   corrupted_files[n].file) \in DOMAIN primary
           /\ VerdictsOf(Join(Join(TargetBase(corrupted_files[n].plot),
                                   corrupted_files[n].folder),
                              corrupted_files[n].file)) = {n}

(***************************************************************************)
(* Properties of the SET folder assignment                                 *)
(***************************************************************************)

\* The dialogue is waiting for a line of the assignment loop.
InLoop == pipeline = "multispec" /\ pc \in {"assign", "invalid"}

\* The word is the spelling of a plot id of the site registry.
Registered(word) == \E p \in SITE_DATABASE : PlotChars(p) = word

\* C21: every plot id in set_assignments is a plot id of SITE_DATABASE, and
\* a line of the assignment loop that is neither BACK nor the spelling of a
\* plot id of SITE_DATABASE changes neither the assignments nor the cursor
\* and is followed by the prompt for another line.
C21_AssignedPlotsAreRegistered ==
    /\ [](\A t \in DOMAIN set_assignments : set_assignments[t] \in SITE_DATABASE)
    /\ [][InLoop /\ command' # BACK /\ ~ Registered(command')
              => /\ set_assignments' = set_assignments
                 /\ set_index' = set_index
                 /\ pc' = "invalid"]_vars

\* The first SET folder is assigned, and the id XX typed for the second
\* has been turned down.
C21_Witness ==
    /\ pipeline = "multispec" /\ pc = "invalid"
    /\ command = << 88, 88 >>
    /\ set_index = 1
    /\ DOMAIN set_assignments = {all_set_folders[1]}
    /\ Len(all_set_folders) >= 2


\* The assignments of the SET folders before position n of all_set_folders.
Before(assignments, n) ==
    [ t \in { all_set_folders[k] : k \in 1 .. n } \cap DOMAIN assignments
          |-> assignments[t] ]

\* C22: BACK typed in the assignment loop with set_index > 0, as the first
\* line or after rejected lines, removes the assignment of the SET folder
\* before the cursor, keeps the assignments of the SET folders before that
\* one, moves the cursor back by one and asks for that SET folder again;
\* BACK with the cursor at 0 leaves the assignments and the cursor unchanged.
C22_BackUnassignsPrevious ==
    [][InLoop /\ command' = BACK
          => /\ pc' = "assign"
             /\ IF set_index > 0
                THEN /\ set_index' = set_index - 1
                     /\ all_set_folders[set_index] \notin DOMAIN set_assignments'
                     /\ Before(set_assignments', set_index - 1)
                            = Before(set_assignments, set_index - 1)
                     /\ DOMAIN set_assignments'
                            = DOMAIN set_assignments \ {all_set_folders[set_index]}
                ELSE /\ set_index' = set_index
                     /\ set_assignments' = set_assignments]_vars

\* BACK has been typed after two SET folders were assigned: the first
\* assignment is kept and the second SET folder is asked for again.
C22_Witness ==
    /\ pipeline = "multispec" /\ pc = "assign"
    /\ command = BACK
    /\ set_index = 1
    /\ Len(all_set_folders) >= 3
    /\ DOMAIN set_assignments = {all_set_folders[1]}
    /\ set_assignments[all_set_folders[1]] = "SAAFLB0030"


\* The first n SET folders in sorted order.
FirstSets(n) == { all_set_folders[k] : k \in 1 .. n }

\* No line typed in the assignment loop from here on is BACK or an invalid id.
OnlyPlotIds == [][InLoop => Registered(command')]_vars

\* C29: while the assignment loop runs, the keys of set_assignments are the
\* first set_index SET folders in sorted order and 0 <= set_index <=
\* len(all_set_folders); the loop is left only with every SET folder
\* assigned; and the loop is left if from some point on the operator types
\* neither BACK nor an invalid id.
C29_KeysAreFirstSets ==
    /\ [](InLoop => /\ set_index \in 0 .. Len(all_set_folders)
                    /\ DOMAIN set_assignments = FirstSets(set_index))
    /\ [][InLoop /\ ~ InLoop'
              => DOMAIN set_assignments' = FirstSets(Len(all_set_folders))]_vars
    /\ (<> OnlyPlotIds => []<> ~ InLoop)

\* The loop has been left after a BACK and a rejected line on the way: the
\* three SET folders are assigned.
C29_Witness ==
    /\ pipeline = "multispec" /\ pc = "summary"
    /\ Len(all_set_folders) = 3
    /\ set_index = 3
    /\ DOMAIN set_assignments = FirstSets(3)
    /\ set_assignments[all_set_folders[1]] # set_assignments[all_set_folders[3]]


(***************************************************************************)
(* Properties of the scan for SET folders                                  *)
(***************************************************************************)

\* The scan of the cards for SET folders is over.
Discovered ==
    pipeline = "multispec" /\ pc \in {"prompt", "assign", "invalid", "summary", "returned"}

\* C24: when a SET folder cannot be listed during the scan for SET folders,
\* every other SET folder of the same camera and of the other camera is
\* found and is offered for assignment.
C24_OtherSetsAreFound ==
    Discovered
        => /\ \A t \in DOMAIN sd["RED"] :
                  << "RED", t >> \notin denied => t \in red_set_folders
           /\ \A t \in DOMAIN sd["BLUE"] :
                  << "BLUE", t >> \notin denied => t \in blue_set_folders
           /\ \A t \in DOMAIN sd["RED"] \cup DOMAIN sd["BLUE"] :
                  (<< "RED", t >> \notin denied \/ t \in DOMAIN sd["BLUE"])
                      => \E k \in DOMAIN all_set_folders : all_set_folders[k] = t


(***************************************************************************)
(* Properties of the proceed prompt                                        *)
(***************************************************************************)

\* The prompt of a step has just been answered.
Answered == pc \in {"confirmed", "verified"}

\* C28: the proceed prompt is left only by PROCEED and by BACK, and when the
\* prompt before the LiDAR transfer, the RGB transfer, the verification or
\* the backup has been answered BACK the step starts no walk, no
\* verification and no copy: nothing is copied or reported.
C28_BackStartsNothing ==
    /\ [][(pc \in {"prompt", "ready"} /\ pc' # pc)
              => command' \in {PROCEED, BACK}]_vars
    /\ [][(Answered /\ command = BACK /\ pipeline \in {"lidar", "rgb", "verify"})
              => /\ pc' \notin {"walk", "verify", "backup"}
                 /\ UNCHANGED << dest, backup, folder_summary, site_reports,
                                 total_files, queue >>]_vars


(***************************************************************************)
(* Properties of the failures of the file system                           *)
(***************************************************************************)

\* C23: no failure of one operation of the file system inside a transfer
\* (here os.makedirs of the target directory) ends the process: the walk
\* goes on to the next folder of the card and reaches the summary.
C23_NoFailureEndsProcess ==
    /\ pc # "exited"
    /\ pc = "done" /\ ~ NothingToCopy(pipeline, card)
           => \A n \in DOMAIN card :
                  Walked(pipeline, card[n])
                      => \E r \in DOMAIN folder_summary :
                             folder_summary[r].Folder = card[n].name


(***************************************************************************)
(* Properties of the backup                                                *)
(***************************************************************************)

\* C27: when the copy phase of the backup has ended with error_count = 0,
\* every file of the parent folder is in the backup folder at the same
\* relative path with the same size, and the comparison that follows
\* reports no "Missing in backup" and no "Size mismatch".
C27_BackupMirrorsPrimary ==
    /\ (pipeline = "verify" /\ pc = "backup" /\ queue = << >> /\ error_count = 0)
           => \A p \in DOMAIN get_file_list(primary) :
                  /\ p \in DOMAIN get_file_list(backup)
                  /\ get_file_list(backup)[p] = get_file_list(primary)[p]
    /\ (pipeline = "verify" /\ pc = "compared" /\ error_count = 0)
           => only_in_1 = {} /\ size_diff = {}


(***************************************************************************)
(* Properties of the packer's loop                                         *)
(***************************************************************************)

\* The file at the cursor has a name without a numeric suffix.
NoSuffixAtCursor ==
    SeriesNumOf(FileName(all_tif_files[i + 1].name)) = None

\* An iteration of the packer's loop is taken.
Iteration == pc = "pack" /\ i < Len(all_tif_files) /\ pc' = "pack"

\* C30: the packer's loop terminates.  In every iteration the detected
\* series length L is at least 1, at most 11 and at most the number of
\* files from the cursor on, it is 1 when the name at the cursor has no
\* numeric suffix, and the cursor advances by exactly L whether or not a
\* copy failed; the loop is left with the cursor at the length of the list,
\* and once entered it is left.
C30_PackerTerminates ==
    /\ [][Iteration
              => /\ SeriesCount(all_tif_files, i) \in 1 .. 11
                 /\ SeriesCount(all_tif_files, i) <= Len(all_tif_files) - i
                 /\ NoSuffixAtCursor => SeriesCount(all_tif_files, i) = 1
                 /\ i' = i + SeriesCount(all_tif_files, i)
                 /\ all_tif_files' = all_tif_files]_vars
    /\ [][(pc = "pack" /\ pc' # "pack")
              => pc' = "done" /\ i = Len(all_tif_files)]_vars
    /\ ((pc = "pack") ~> (pc = "done" /\ i = Len(all_tif_files)))

\* The loop has ended with the cursor at the end of a list of several
\* files, of which one could not be copied and one had no numeric suffix.
C30_Witness ==
    /\ pipeline = "multispec" /\ pc = "done"
    /\ Len(all_tif_files) >= 3
    /\ i = Len(all_tif_files)
    /\ copy_errors > 0
    /\ \E n \in DOMAIN all_tif_files :
           SeriesNumOf(FileName(all_tif_files[n].name)) = None


(***************************************************************************)
(* Properties of a run after an interrupted one                            *)
(***************************************************************************)

\* The folder of the card is copied by a run that is not interrupted.
Copyable(kind, folder) ==
    /\ Walked(kind, folder)
    /\ Len(MissingOf(RequiredFiles(kind), PresentExtensions(folder.files))) = 0

\* C26: when a transfer has been interrupted and is run again to its end
\* with the same card and parent folder and without errors, the parent
\* folder holds every file a run without interruption produces, and no
\* folder of the parent folder loses a file on the way.
C26_RerunCompletes ==
    /\ [](pc = "done"
              => \A n \in DOMAIN card :
                     Copyable(pipeline, card[n])
                         => \A x \in DOMAIN card[n].files :
                                card[n].files[x] \in
                                    FilesIn(dest, << PlotIdOf(card[n].name), today,
                                                     card[n].name >>))
    /\ [][\A d \in DOMAIN dest : d \in DOMAIN dest' /\ dest[d] \subseteq dest'[d]]_vars


(***************************************************************************)
(* Properties of the order of the stages                                   *)
(***************************************************************************)

\* Every SET folder found on the cards has a plot.
AllAssigned ==
    DOMAIN set_assignments = { all_set_folders[k] : k \in DOMAIN all_set_folders }

\* The positions of the multi-spectral step before the transfer begins.
BeforeTransfer ==
    pc \in {"start", "prompt", "assign", "invalid", "summary", "returned"}

\* The number of site folders of the parent folder.
SiteCount == Len(SiteFolders(primary))

\* C25: each stage ends before the next begins.  In the multi-spectral step
\* no file is copied before every SET folder has a plot and the operator
\* has answered PROCEED to the confirmation, and the corruption check begins
\* only when the packer has passed its last file, after which nothing is
\* copied; in the backup the comparison runs only when every site folder
\* has been copied, skipped or failed, and the verification of the backup
\* begins only after the comparison.
C25_StagesInOrder ==
    /\ [](pipeline = "multispec" /\ BeforeTransfer => dest = << >>)
    /\ [][(pipeline = "multispec" /\ BeforeTransfer /\ ~ BeforeTransfer')
              => /\ pc = "summary" /\ pc' = "confirmed"
                 /\ command' = PROCEED
                 /\ AllAssigned /\ AllAssigned']_vars
    /\ [][dest' # dest => pc = "pack" /\ AllAssigned]_vars
    /\ [][(pipeline = "multispec" /\ pc = "pack" /\ pc' # "pack")
              => i >= Len(all_tif_files)]_vars
    /\ [][(pc' = "scan" /\ pc # "scan")
              => pc = "packed" /\ i >= Len(all_tif_files)]_vars
    /\ [][(pc' = "packed" /\ pc # "packed") => pc = "done"]_vars
    /\ [][(pc' = "compared" /\ pc # "compared")
              => /\ pc = "backup" /\ queue = << >>
                 /\ success_count + skip_count + error_count = SiteCount]_vars
    /\ [][(base_dir_name' = "backup" /\ base_dir_name # "backup")
              => pc = "compared"]_vars

\* The corruption check has ended on the files of a transfer that followed
\* the assignment of two or more SET folders.
C25_Witness ==
    /\ pipeline = "multispec" /\ pc = "scanned"
    /\ Len(all_set_folders) >= 2
    /\ AllAssigned
    /\ dest # << >>
    /\ total_files_checked > 0
    /\ i = Len(all_tif_files)

====
